---- MODULE Spec2Model ----
(***************************************************************************)
(* A model of the kiz bytecode virtual machine: the heap object model and  *)
(* attribute resolver, the IR generator's lowering of statements, the      *)
(* dispatch loops (main loop and the nested loop of IMPORT), the call      *)
(* protocol, and try/catch unwinding.                                      *)
(*                                                                         *)
(* Values are records [t, v]: t is the variant tag, v the payload.         *)
(* Immutable variants (nil, bool, int, str, fn, native) carry their        *)
(* payload in v and have the attrs their constructor installs; objects     *)
(* with mutable attrs (prototype singletons, plain objects, lists, errors, *)
(* modules) live in `heap` and are referenced by [t |-> "ref", v |-> id].  *)
(***************************************************************************)
EXTENDS Integers, Sequences, FiniteSets, TLC

\* ------------------------------------------------------------------ bounds
\* largest Int payload the arithmetic natives may produce in the model
MaxInt == 70
\* largest number of objects the heap may hold
MaxHeap == 40
\* largest call-stack depth explored
MaxDepth == 4

\* ------------------------------------------------------------------ values
\* the members of a Function (and of a Module): name, code, argc
NoFn == [name |-> "", code |-> [code |-> <<>>, consts |-> <<>>, names |-> <<>>], argc |-> 0]
\* Every value has the same fields, so that any two values can be compared:
\* v holds an Int's number or a reference's heap id, s a String's text or a
\* native's name, b a Bool's value, f a Function's members.
Val(t, v, s, b, f) == [t |-> t, v |-> v, s |-> s, b |-> b, f |-> f]
Nil == Val("nil", 0, "", FALSE, NoFn)
BoolV(b) == Val("bool", 0, "", b, NoFn)
IntV(i) == Val("int", i, "", FALSE, NoFn)
StrV(s) == Val("str", 0, s, FALSE, NoFn)
NativeV(n) == Val("native", 0, n, FALSE, NoFn)
FnV(name, code, argc) ==
  Val("fn", 0, "", FALSE, [name |-> name, code |-> code, argc |-> argc])
Ref(id) == Val("ref", id, "", FALSE, NoFn)
\* the absent value (a null pointer / a failed find)
None == Val("none", 0, "", FALSE, NoFn)

EmptyMap == <<>>
\* dep::HashMap::insert: bind k to v, replacing an existing binding
MapInsert(m, k, v) == (k :> v) @@ m
\* dep::HashMap::find: the bound value, or None
MapFind(m, k) == IF k \in DOMAIN m THEN m[k] ELSE None

\* ------------------------------------------------------- prototype objects
based_obj == 1
based_list == 2
based_function == 3
based_dict == 4
based_int == 5
based_rational == 6
based_bool == 7
based_nil == 8
based_str == 9
based_native_function == 10
based_error == 11
based_decimal == 12
based_module == 13

\* a heap cell: kind of object, Object::attrs, List::val, Module::attrs,
\* Module::path, and in fn the name and code of a Module
Cell(kind, attrs, val) == [kind |-> kind, attrs |-> attrs, val |-> val,
                           mattrs |-> EmptyMap, path |-> "", fn |-> NoFn]

\* model::Object(): a fresh object has no attributes
NewObject == Cell("object", EmptyMap, <<>>)
\* model::List(val)
NewList(val) == Cell("list", MapInsert(MapInsert(EmptyMap, "__parent__", Ref(based_list)),
                                       "__current_index__", IntV(0)), val)
\* model::Dictionary(val): val holds the entries <<fingerprint, key, value>>
NewDict(val) == Cell("dict", MapInsert(EmptyMap, "__parent__", Ref(based_dict)), val)
\* model::Error()
NewError == Cell("error", MapInsert(EmptyMap, "__parent__", Ref(based_error)), <<>>)
\* model::Module(name, code): Object() plus the Module's own members
NewModule(name, code) ==
  [Cell("module", EmptyMap, <<>>) EXCEPT !.fn = [name |-> name, code |-> code, argc |-> 0]]

WithParent(attrs) == MapInsert(attrs, "__parent__", Ref(based_obj))

\* Vm::entry_builtins: the attrs of the thirteen prototype singletons
InitHeap ==
  << Cell("object", ("__eq__" :> NativeV("obj_eq")) @@ ("__str__" :> NativeV("obj_str"))
                     @@ ("__getitem__" :> NativeV("obj_getitem"))
                     @@ ("__setitem__" :> NativeV("obj_setitem")), <<>>),
     Cell("object", WithParent(("__next__" :> NativeV("list_next"))
                               @@ ("__bool__" :> NativeV("list_bool"))), <<>>),
     Cell("object", WithParent(EmptyMap), <<>>),
     Cell("object", WithParent(EmptyMap), <<>>),
     Cell("object", WithParent(("__add__" :> NativeV("int_add"))
                               @@ ("__sub__" :> NativeV("int_sub"))
                               @@ ("__mul__" :> NativeV("int_mul"))
                               @@ ("__div__" :> NativeV("int_div"))
                               @@ ("__mod__" :> NativeV("int_mod"))
                               @@ ("__pow__" :> NativeV("int_pow"))
                               @@ ("__gt__" :> NativeV("int_gt"))
                               @@ ("__lt__" :> NativeV("int_lt"))
                               @@ ("__eq__" :> NativeV("int_eq"))
                               @@ ("__bool__" :> NativeV("int_bool"))), <<>>),
     Cell("object", WithParent(EmptyMap), <<>>),
     Cell("object", WithParent(EmptyMap), <<>>),
     Cell("object", WithParent(EmptyMap), <<>>),
     Cell("object", WithParent(("__bool__" :> NativeV("str_bool"))), <<>>),
     Cell("object", EmptyMap, <<>>),
     Cell("object", ("__call__" :> NativeV("error_call")), <<>>),
     Cell("object", EmptyMap, <<>>),
     Cell("object", EmptyMap, <<>>) >>

\* Vm::entry_builtins: the builtins map
Builtins ==
  ("print" :> NativeV("print")) @@ ("create" :> NativeV("create")) @@
  ("Object" :> Ref(based_obj)) @@ ("Int" :> Ref(based_int)) @@
  ("Bool" :> Ref(based_bool)) @@ ("List" :> Ref(based_list)) @@
  ("Str" :> Ref(based_str)) @@ ("Func" :> Ref(based_function)) @@
  ("Error" :> Ref(based_error)) @@ ("Module" :> Ref(based_module))

\* model::Function(name, code, argc): the attrs its constructor installs
FunctionAttrs == ("__parent__" :> Ref(based_function))
\* The attrs of a Function are written by SET_ATTR like any object's. A
\* function whose attrs were written has a heap cell of kind "function" that
\* holds them, fn being the function; one that was never written has the
\* attrs of its constructor.
fn_cells(h, f) == {i \in 1..Len(h) : h[i].kind = "function" /\ h[i].fn = f}

\* Object::attrs of a value: what its constructor installed, or the heap cell's map
attrs_of(h, o) ==
  CASE o.t = "ref"    -> h[o.v].attrs
    [] o.t = "nil"    -> ("__parent__" :> Ref(based_nil))
    [] o.t = "bool"   -> ("__parent__" :> Ref(based_bool))
    [] o.t = "int"    -> ("__parent__" :> Ref(based_int))
    [] o.t = "str"    -> ("__parent__" :> Ref(based_str))
    [] o.t = "decimal" -> ("__parent__" :> Ref(based_decimal))
    [] o.t = "fn"     -> IF fn_cells(h, o.f) = {} THEN FunctionAttrs
                         ELSE h[CHOOSE i \in fn_cells(h, o.f) : TRUE].attrs
    [] o.t = "native" -> ("__parent__" :> Ref(based_native_function))
    [] OTHER          -> EmptyMap

\* the outcome of a recursion that never returns (a cyclic __parent__ chain)
Diverge == Val("diverge", 0, "", FALSE, NoFn)

\* what get_attr yields when it throws NativeFuncError("NameError",
\* "Undefined attribute ...")
UndefinedAttribute == Val("raise", 0, "NameError", FALSE, NoFn)

\* a resolver that looks in the parent before the object itself
RECURSIVE get_attr_parent_first(_, _, _, _)
get_attr_parent_first(h, obj, attr_name, fuel) ==
  LET attr_it == MapFind(attrs_of(h, obj), attr_name)
      parent_it == MapFind(attrs_of(h, obj), "__parent__")
      inherited == IF parent_it # None /\ fuel > 0
                   THEN get_attr_parent_first(h, parent_it, attr_name, fuel - 1)
                   ELSE UndefinedAttribute
  IN IF inherited # UndefinedAttribute THEN inherited
     ELSE IF attr_it # None THEN attr_it
     ELSE UndefinedAttribute

\* Vm::get_attr: own binding first, else recurse on __parent__, else throw.
\* A chain longer than the heap revisits a cell, so the recursion of the code
\* never returns: fuel detects that and yields Diverge.
RECURSIVE get_attr_from(_, _, _, _)
get_attr_from(h, obj, attr_name, fuel) ==
  LET attr_it == MapFind(attrs_of(h, obj), attr_name)
      parent_it == MapFind(attrs_of(h, obj), "__parent__")
  IN IF attr_it # None THEN attr_it
     ELSE IF parent_it # None
          THEN IF fuel > 0 THEN get_attr_from(h, parent_it, attr_name, fuel - 1)
                           ELSE Diverge
          ELSE UndefinedAttribute

get_attr(h, obj, attr_name) == get_attr_from(h, obj, attr_name, Len(h) + 1)

\* ------------------------------------------------------------ IR generator
\* The generator state g: curr_code_list, curr_names, curr_consts, block_stack.
\* An instruction is [opc, opn]; jump targets and indices are 0-based as in
\* the code, so names[i] of the code is g.names[i + 1] here.
Inst(opc, opn) == [opc |-> opc, opn |-> opn]
CodeObject(code, consts, names) == [code |-> code, consts |-> consts, names |-> names]
EmptyGen == [code |-> <<>>, names |-> <<>>, consts |-> <<>>, block_stack |-> <<>>]

emplace_back(g, opc, opn) == [g EXCEPT !.code = Append(@, Inst(opc, opn))]

\* curr_code_list[idx].opn_list[0] = target
patch(g, idx, target) == [g EXCEPT !.code[idx + 1].opn = <<target>>]

RECURSIVE patch_all(_, _, _)
patch_all(g, idxs, target) ==
  IF idxs = <<>> THEN g ELSE patch_all(patch(g, Head(idxs), target), Tail(idxs), target)

\* IRGenerator::get_or_add_name: index of the first occurrence, appending if absent
name_index(names, name) ==
  IF \E i \in 1..Len(names) : names[i] = name
  THEN (CHOOSE i \in 1..Len(names) : names[i] = name /\ \A j \in 1..(i - 1) : names[j] # name) - 1
  ELSE Len(names)
get_or_add_name(g, name) ==
  IF \E i \in 1..Len(g.names) : g.names[i] = name THEN g
  ELSE [g EXCEPT !.names = Append(@, name)]

\* IRGenerator::get_or_add_const: std::find compares pointers and every literal
\* is a freshly allocated object, so the constant is always appended
get_or_add_const(g, obj) == [g EXCEPT !.consts = Append(@, obj)]
load_const(g, obj) == emplace_back(get_or_add_const(g, obj), "LOAD_CONST", <<Len(g.consts)>>)

binary_opcode(op) ==
  CASE op = "+" -> "OP_ADD" [] op = "-" -> "OP_SUB" [] op = "*" -> "OP_MUL"
    [] op = "/" -> "OP_DIV" [] op = "%" -> "OP_MOD" [] op = "^" -> "OP_POW"
    [] op = "==" -> "OP_EQ" [] op = ">" -> "OP_GT" [] op = "<" -> "OP_LT"
    [] op = "and" -> "OP_AND" [] op = "or" -> "OP_OR" [] op = "is" -> "OP_IS"

RECURSIVE gen_expr(_, _), gen_exprs(_, _), gen_block(_, _), gen_stmt(_, _), gen_entries(_, _),
          gen_catches(_, _, _), catch_test(_, _, _), catch_body(_, _, _, _),
          gen_object_body(_, _, _), add_params(_, _)

\* get_or_add_name(name), then the instruction whose first operand is the
\* name's index
emit_named(g, opc, name, rest) ==
  emplace_back(get_or_add_name(g, name), opc,
               <<name_index(get_or_add_name(g, name).names, name)>> \o rest)

\* FnDeclExpr: get_or_add_name for every parameter
add_params(g, params) ==
  IF params = <<>> THEN g ELSE add_params(get_or_add_name(g, Head(params)), Tail(params))

gen_exprs(g, es) == IF es = <<>> THEN g ELSE gen_exprs(gen_expr(g, Head(es)), Tail(es))

\* gen_fn_call: the arguments, packed into a list
args_list(g, call_expr) ==
  emplace_back(gen_exprs(g, call_expr.args), "MAKE_LIST", <<Len(call_expr.args)>>)

\* IRGenerator::gen_fn_call
gen_fn_call(g, call_expr) ==
  IF call_expr.callee.k = "GetMember"
  THEN emit_named(gen_expr(args_list(g, call_expr), call_expr.callee.father),
                  "CALL_METHOD", call_expr.callee.child, <<Len(call_expr.args)>>)
  ELSE emplace_back(gen_expr(args_list(g, call_expr), call_expr.callee),
                    "CALL", <<Len(call_expr.args)>>)

\* FnDeclExpr: the body l gets "LOAD_CONST Nil; RET" unless it ends in RET
finish_fn(l) ==
  IF l.code = <<>> \/ l.code[Len(l.code)].opc # "RET"
  THEN emplace_back(load_const(l, Nil), "RET", <<>>)
  ELSE l

\* FnDeclExpr: the saved code, names and consts are restored (block_stack was
\* never saved) and the Function made of the body l is loaded as a constant
load_fn(g, l, expr) ==
  load_const([g EXCEPT !.block_stack = l.block_stack],
             FnV(IF expr.name = "" THEN "<lambda>" ELSE expr.name,
                 CodeObject(l.code, l.consts, l.names), Len(expr.params)))

\* IRGenerator::gen_dict: every entry as key then value, then MAKE_DICT n
gen_entries(g, es) ==
  IF es = <<>> THEN g ELSE gen_entries(gen_expr(gen_expr(g, Head(es)[1]), Head(es)[2]), Tail(es))
gen_dict(g, expr) == emplace_back(gen_entries(g, expr.elements), "MAKE_DICT", <<Len(expr.elements)>>)

\* IRGenerator::gen_expr
gen_expr(g, expr) ==
  CASE expr.k = "Number" -> load_const(g, IntV(expr.value))
    [] expr.k = "String" -> load_const(g, StrV(expr.value))
    [] expr.k = "Nil" -> load_const(g, Nil)
    [] expr.k = "Bool" -> load_const(g, BoolV(expr.val))
    [] expr.k = "Identifier" -> emit_named(g, "LOAD_VAR", expr.name, <<>>)
    [] expr.k = "Binary" ->
         emplace_back(gen_expr(gen_expr(g, expr.left), expr.right), binary_opcode(expr.op), <<>>)
    [] expr.k = "Unary" ->
         emplace_back(gen_expr(g, expr.operand), IF expr.op = "-" THEN "OP_NEG" ELSE "OP_NOT", <<>>)
    [] expr.k = "Call" -> gen_fn_call(g, expr)
    [] expr.k = "List" ->
         emplace_back(gen_exprs(g, expr.elements), "MAKE_LIST", <<Len(expr.elements)>>)
    [] expr.k = "GetMember" -> emit_named(gen_expr(g, expr.father), "GET_ATTR", expr.child, <<>>)
    [] expr.k = "Dict" -> gen_dict(g, expr)
    [] expr.k = "GetItem" ->
         emplace_back(gen_expr(emplace_back(gen_exprs(g, expr.params),
                                            "MAKE_LIST", <<Len(expr.params)>>),
                               expr.father),
                      "GET_ITEM", <<>>)
    [] expr.k = "FuncDecl" ->
         load_fn(g, finish_fn(gen_block(add_params([EmptyGen EXCEPT !.block_stack = g.block_stack],
                                                   expr.params), expr.body)), expr)

\* IRGenerator::gen_if, in the order of the code: g1 is the generator after
\* the condition, g2 after the then block, g4 after the else block
if_end(g4, jump_else_idx) == patch(g4, jump_else_idx, Len(g4.code))
if_else(g2, jump_if_false_idx, if_stmt) ==
  if_end(gen_block(patch(emplace_back(g2, "JUMP", <<0>>), jump_if_false_idx, Len(g2.code) + 1),
                   if_stmt.elseBlock),
         Len(g2.code))
if_then(g1, if_stmt) ==
  if_else(gen_block(emplace_back(g1, "JUMP_IF_FALSE", <<0>>), if_stmt.thenBlock),
          Len(g1.code), if_stmt)
gen_if(g, if_stmt) == if_then(gen_expr(g, if_stmt.condition), if_stmt)

\* the tail shared by gen_while and gen_for: back jump, exit patching, pop
close_loop(g, loop_entry_idx, jump_if_false_idx) ==
  LET g1 == emplace_back(g, "JUMP", <<loop_entry_idx>>)
      loop_exit_idx == Len(g1.code)
      top == g1.block_stack[Len(g1.block_stack)]
      g2 == patch(g1, jump_if_false_idx, loop_exit_idx)
      g3 == patch_all(g2, top.break_pos, loop_exit_idx)
      g4 == patch_all(g3, top.continue_pos, loop_entry_idx)
  IN [g4 EXCEPT !.block_stack = SubSeq(@, 1, Len(@) - 1)]

push_loop(g) == [g EXCEPT !.block_stack = Append(@, [break_pos |-> <<>>, continue_pos |-> <<>>])]

\* the body of a loop: g1 is the generator after the condition
loop_body(g1, loop_entry_idx, body) ==
  close_loop(gen_block(push_loop(emplace_back(g1, "JUMP_IF_FALSE", <<0>>)), body),
             loop_entry_idx, Len(g1.code))

\* IRGenerator::gen_while
gen_while(g, while_stmt) ==
  loop_body(gen_expr(g, while_stmt.condition), Len(g.code), while_stmt.body)

\* gen_for: iter.__next__() is stored in the loop variable and loaded again
\* as the condition; g1 is the generator after the iterable's expression
for_head(g1, for_stmt) ==
  emit_named(emit_named(emit_named(g1, "CALL_METHOD", "__next__", <<>>),
                        "SET_LOCAL", for_stmt.item_var_name, <<>>),
             "LOAD_VAR", for_stmt.item_var_name, <<>>)

\* IRGenerator::gen_for: the loop entry is before "MAKE_LIST 0" and the
\* iterable's expression
gen_for(g, for_stmt) ==
  loop_body(for_head(gen_expr(emplace_back(g, "MAKE_LIST", <<0>>), for_stmt.iter), for_stmt),
            Len(g.code), for_stmt.body)

\* IRGenerator::gen_try, the loop over catch_blocks; acc collects the indices
\* of the JUMPs to the end of all catches. Returns <<g, acc>>.
gen_catches(g, catch_blocks, acc) ==
  IF catch_blocks = <<>> THEN <<g, acc>>
  ELSE catch_test(gen_expr(emplace_back(g, "LOAD_ERROR", <<>>), Head(catch_blocks).error),
                  catch_blocks, acc)
\* g0 is the generator after the error's expression
catch_test(g0, catch_blocks, acc) ==
  catch_body(gen_block(emit_named(emplace_back(emplace_back(emplace_back(g0,
                                     "IS_INSTANCE", <<>>), "JUMP_IF_FALSE", <<0>>), "LOAD_ERROR", <<>>),
                                  "SET_LOCAL", Head(catch_blocks).var_name, <<>>),
                       Head(catch_blocks).catch_block),
             Len(g0.code) + 1, catch_blocks, acc)
\* g4 is the generator after the catch body
catch_body(g4, curr_jump_if_false_idx, catch_blocks, acc) ==
  gen_catches(patch(emplace_back(g4, "JUMP", <<0>>), curr_jump_if_false_idx, Len(g4.code) + 1),
              Tail(catch_blocks), Append(acc, Len(g4.code)))

\* gen_try, after the catches r = <<g, acc>>: the rethrow, then the patches
try_end(r, try_end_idx) ==
  LET g3 == emplace_back(emplace_back(r[1], "LOAD_ERROR", <<>>), "THROW", <<>>)
      end_all_catch_idx == Len(g3.code)
  IN patch_all(patch(g3, try_end_idx, end_all_catch_idx), r[2], end_all_catch_idx)

\* gen_try, after the try body g1: TRY_END, TRY_START's operand is the index
\* after it, then the catches
try_catches(g1, try_start_idx, try_stmt) ==
  try_end(gen_catches(patch(emplace_back(g1, "TRY_END", <<0>>), try_start_idx, Len(g1.code) + 1),
                      try_stmt.catch_blocks, <<>>),
          Len(g1.code))

\* IRGenerator::gen_try
gen_try(g, try_stmt) ==
  try_catches(gen_block(emplace_back(g, "TRY_START", <<0>>), try_stmt.try_block),
              Len(g.code), try_stmt)

\* gen_block, ObjectStmt: the body's "field = expr" assignments
gen_object_body(g, name_idx, body) ==
  IF body = <<>> THEN g
  ELSE gen_object_body(emit_named(gen_expr(emplace_back(g, "LOAD_VAR", <<name_idx>>),
                                           Head(body).expr),
                                  "SET_ATTR", Head(body).name, <<>>),
                       name_idx, Tail(body))

\* gen_block, ObjectStmt: g1 is the generator after get_or_add_name(name)
object_decl(g1, stmt) ==
  LET name_idx == name_index(g1.names, stmt.name)
      g2 == emplace_back(emplace_back(g1, "CREATE_OBJECT", <<>>), "SET_LOCAL", <<name_idx>>)
      g3 == IF stmt.parent_name = "" THEN g2
            ELSE emit_named(emit_named(emplace_back(g2, "LOAD_VAR", <<name_idx>>),
                                       "LOAD_VAR", stmt.parent_name, <<>>),
                            "SET_ATTR", "__parent__", <<>>)
  IN gen_object_body(g3, name_idx, stmt.body)

assign_opcode(k) ==
  CASE k = "Assign" -> "SET_LOCAL"
    [] k = "NonlocalAssign" -> "SET_NONLOCAL"
    [] k = "GlobalAssign" -> "SET_GLOBAL"

\* IRGenerator::gen_block, one statement of the switch
gen_stmt(g, stmt) ==
  CASE stmt.k = "Import" -> emit_named(g, "IMPORT", stmt.path, <<>>)
    [] stmt.k \in {"Assign", "NonlocalAssign", "GlobalAssign"} ->
         emit_named(gen_expr(g, stmt.expr), assign_opcode(stmt.k), stmt.name, <<>>)
    [] stmt.k = "Object" -> object_decl(get_or_add_name(g, stmt.name), stmt)
    [] stmt.k = "ExprStmt" -> gen_expr(g, stmt.expr)
    [] stmt.k = "If" -> gen_if(g, stmt)
    [] stmt.k = "For" -> gen_for(g, stmt)
    [] stmt.k = "While" -> gen_while(g, stmt)
    [] stmt.k = "Try" -> gen_try(g, stmt)
    [] stmt.k = "Return" ->
         emplace_back(IF stmt.expr.k # "Absent" THEN gen_expr(g, stmt.expr) ELSE load_const(g, Nil),
                      "RET", <<>>)
    [] stmt.k = "Throw" -> emplace_back(gen_expr(g, stmt.expr), "THROW", <<>>)
    [] stmt.k = "Break" ->
         emplace_back([g EXCEPT !.block_stack[Len(g.block_stack)].break_pos = Append(@, Len(g.code))],
                      "JUMP", <<0>>)
    [] stmt.k = "Next" ->
         emplace_back([g EXCEPT !.block_stack[Len(g.block_stack)].continue_pos = Append(@, Len(g.code))],
                      "JUMP", <<0>>)
    [] stmt.k = "SetMember" ->
         emit_named(gen_expr(gen_expr(g, stmt.father), stmt.val), "SET_ATTR", stmt.child, <<>>)
    [] stmt.k = "SetItem" ->
         emplace_back(gen_expr(gen_expr(gen_expr(g, stmt.father), stmt.param), stmt.val),
                      "SET_ITEM", <<>>)

\* IRGenerator::gen_block
gen_block(g, block) == IF block = <<>> THEN g ELSE gen_block(gen_stmt(g, Head(block)), Tail(block))

\* IRGenerator::gen: the code object of a module's top-level block
gen(ast) == LET g == gen_block(EmptyGen, ast) IN CodeObject(g.code, g.consts, g.names)


\* ------------------------------------------------------------------- state
VARIABLES
  call_stack,      \* Vm::call_stack: sequence of CallFrames, bottom first
  op_stack,        \* Vm::op_stack, bottom first
  heap,            \* the objects with mutable attrs, by id
  running,         \* Vm::running
  curr_error,      \* Vm::curr_error
  loaded_modules,  \* Vm::loaded_modules: path -> Module
  loops,           \* the dispatch loops active on the native stack, outermost first
  status,          \* "run", or how the process ended: "done", "stopped", "abort", "ub"
  output,          \* what print has written, one entry per call
  frames_made,     \* number of CallFrames constructed so far (names each frame)
  curr_inst,       \* the dispatch loop's curr_inst: the instruction fetched last
  program,         \* the name of the source program (or REPL session) given to the VM
  inputs_read      \* Repl: the number of inputs read so far

vars == <<call_stack, op_stack, heap, running, curr_error, loaded_modules, loops,
          status, output, frames_made, curr_inst, program, inputs_read>>

\* CallFrame; fid names the frame object (its address in the code)
CallFrame(fid, name, owner, pc, return_to_pc, code_object) ==
  [fid |-> fid, name |-> name, owner |-> owner, locals |-> EmptyMap, pc |-> pc,
   return_to_pc |-> return_to_pc, code_object |-> code_object, try_blocks |-> <<>>]

\* The machine state a handler works on. ev is how the handler ended: "ok",
\* "error" (a NativeFuncError en/em escaped), "stop" (a KizStopRunningSignal
\* escaped), "abort" (a failed assert) or "ub" (undefined behaviour).
Machine ==
  [cs |-> call_stack, os |-> op_stack, hp |-> heap, ce |-> curr_error,
   lm |-> loaded_modules, out |-> output, fm |-> frames_made,
   ev |-> "ok", en |-> "", em |-> ""]

Last(s) == s[Len(s)]
Front(s) == SubSeq(s, 1, Len(s) - 1)
Push(m, v) == [m EXCEPT !.os = Append(@, v)]
Pop(m) == [m EXCEPT !.os = Front(@)]
Fail(m, ev) == [m EXCEPT !.ev = ev]
\* throw NativeFuncError(name, msg)
Throw(m, name, msg) == [m EXCEPT !.ev = "error", !.en = name, !.em = msg]
\* new T(...): the cell is appended to the heap; its reference is NewRef(m)
NewRef(m) == Ref(Len(m.hp) + 1)
Alloc(m, cell) == [m EXCEPT !.hp = Append(@, cell)]
HasRoom(m) == Len(m.hp) < MaxHeap

IsList(m, o) == o.t = "ref" /\ m.hp[o.v].kind = "list"
IsError(m, o) == o.t = "ref" /\ m.hp[o.v].kind = "error"

\* ----------------------------------------------------------------- natives
\* builtin::check_based_object(obj, proto): is proto on obj's __parent__ chain
RECURSIVE check_based_object(_, _, _, _)
check_based_object(h, obj, proto, fuel) ==
  LET parent_it == MapFind(attrs_of(h, obj), "__parent__")
  IN IF parent_it = None \/ fuel = 0 THEN FALSE
     ELSE IF parent_it = proto THEN TRUE
     ELSE check_based_object(h, parent_it, proto, fuel - 1)

\* list_next with an exhausted cursor left where it is
list_next_no_reset(m, self) ==
  IF ~IsList(m, self) THEN {<<Fail(m, "abort"), Nil>>} ELSE
  LET index == m.hp[self.v].attrs["__current_index__"].v
      val == m.hp[self.v].val
  IN IF index < Len(val)
     THEN {<<[m EXCEPT !.hp[self.v].attrs["__current_index__"] = IntV(index + 1)],
             val[index + 1]>>}
     ELSE {<<m, BoolV(FALSE)>>}

\* list_next: the element at the cursor and the cursor moved on, or
\* Bool(false) and the cursor back at 0 when the list is exhausted
list_next(m, self) ==
  IF ~IsList(m, self) THEN {<<Fail(m, "abort"), Nil>>} ELSE
  LET index == m.hp[self.v].attrs["__current_index__"].v
      val == m.hp[self.v].val
  IN IF index < Len(val)
     THEN {<<[m EXCEPT !.hp[self.v].attrs["__current_index__"] = IntV(index + 1)],
             val[index + 1]>>}
     ELSE {<<[m EXCEPT !.hp[self.v].attrs["__current_index__"] = IntV(0)], BoolV(FALSE)>>}

\* the Decimal a division yields, for a quotient that is a whole number
DecimalV(i) == Val("decimal", i, "", FALSE, NoFn)

\* int_sub, int_mul, int_div, int_mod, int_pow, int_gt, int_lt, int_eq on Int
\* operands (the Decimal branches are outside the values of the model): one
\* argument is asserted; a second operand that is not an Int fails the
\* assertion (or is dereferenced, in int_pow and int_mod)
int_binary(m, id, self, args) ==
  IF Len(args) # 1 THEN {<<Fail(m, "abort"), Nil>>}
  ELSE IF self.t # "int" THEN {<<Fail(m, "ub"), Nil>>}
  ELSE IF args[1].t # "int" THEN {<<Fail(m, "abort"), Nil>>}
  ELSE LET a == self.v
           b == args[1].v
       IN CASE id = "int_sub" -> {<<m, IntV(a - b)>>}
            [] id = "int_mul" -> IF a * b > MaxInt THEN {} ELSE {<<m, IntV(a * b)>>}
            [] id = "int_div" -> IF b = 0 THEN {<<Fail(m, "abort"), Nil>>}
                                 ELSE IF a < 0 \/ b < 0 \/ a % b # 0 THEN {}
                                 ELSE {<<m, DecimalV(a \div b)>>}
            [] id = "int_mod" -> IF b = 0 THEN {<<Fail(m, "abort"), Nil>>}
                                 ELSE IF a < 0 \/ b < 0 THEN {}
                                 ELSE {<<m, IntV(a % b)>>}
            [] id = "int_pow" -> IF b < 0 \/ a < 0 \/ b > MaxDepth THEN {}
                                 ELSE IF a ^ b > MaxInt THEN {}
                                 ELSE {<<m, IntV(a ^ b)>>}
            [] id = "int_gt" -> {<<m, BoolV(a > b)>>}
            [] id = "int_lt" -> {<<m, BoolV(a < b)>>}
            [] id = "int_eq" -> {<<m, BoolV(a = b)>>}

\* The host callables: NativeFunction::func(self, args). args is the List
\* object; the result is a set of pairs <<machine, returned value>>, and a
\* machine with ev # "ok" when the callable throws or asserts.
native_call(m, id, self, args_obj) ==
  LET args == m.hp[args_obj.v].val IN
  CASE id = "print" ->
         {<<[m EXCEPT !.out = Append(@, args)], Nil>>}
    [] id = "create" ->
         IF ~HasRoom(m) THEN {}
         ELSE IF args = <<>> THEN {<<Alloc(m, NewObject), NewRef(m)>>}
         ELSE IF Len(args) = 1
              THEN {<<Alloc(m, Cell("object", MapInsert(EmptyMap, "__parent__", args[1]), <<>>)),
                      NewRef(m)>>}
              ELSE {<<Fail(m, "abort"), Nil>>}
    [] id = "error_call" ->
         IF Len(args) # 2 THEN {<<Fail(m, "abort"), Nil>>}
         ELSE IF ~HasRoom(m) THEN {}
         ELSE {<<Alloc(m, [NewError EXCEPT !.attrs =
                              MapInsert(MapInsert(@, "__name__", args[1]), "__msg__", args[2])]),
                 NewRef(m)>>}
    [] id = "int_add" ->
         IF Len(args) # 1 \/ self.t # "int" \/ args[1].t # "int" THEN {<<Fail(m, "abort"), Nil>>}
         ELSE IF self.v + args[1].v > MaxInt THEN {}
         ELSE {<<m, IntV(self.v + args[1].v)>>}
    [] id \in {"int_sub", "int_mul", "int_div", "int_mod", "int_pow", "int_gt", "int_lt", "int_eq"} ->
         int_binary(m, id, self, args)
    [] id = "int_bool" ->
         IF self.t # "int" THEN {<<Fail(m, "ub"), Nil>>} ELSE {<<m, BoolV(self.v # 0)>>}
    [] id = "str_bool" ->
         IF self.t # "str" THEN {<<Fail(m, "ub"), Nil>>} ELSE {<<m, BoolV(self.s # "")>>}
    [] id = "list_bool" ->
         IF ~IsList(m, self) THEN {<<Fail(m, "ub"), Nil>>}
         ELSE {<<m, BoolV(m.hp[self.v].val # <<>>)>>}
    [] id = "list_next" -> list_next(m, self)
    [] id = "obj_eq" ->
         IF Len(args) # 1 THEN {<<Fail(m, "abort"), Nil>>} ELSE {<<m, BoolV(self = args[1])>>}
    [] id = "obj_str" -> {<<m, StrV("<Object>")>>}
    [] id = "obj_getitem" ->
         IF Len(args) # 1 \/ args[1].t # "str" THEN {<<Fail(m, "abort"), Nil>>}
         ELSE LET attr_val == get_attr(m.hp, self, args[1].s)
              IN IF attr_val = Diverge THEN {<<Fail(m, "ub"), Nil>>}
                 ELSE IF attr_val = UndefinedAttribute
                      THEN {<<Throw(m, "NameError", "Undefined attribute"), Nil>>}
                 ELSE {<<m, attr_val>>}
    [] id = "obj_setitem" ->
         IF Len(args) # 2 \/ args[1].t # "str" THEN {<<Fail(m, "abort"), Nil>>}
         ELSE IF self.t # "ref" THEN {}
         ELSE {<<[m EXCEPT !.hp[self.v].attrs = MapInsert(@, args[1].s, args[2])], self>>}

\* ----------------------------------------------------------- call protocol
\* a binding that pairs the names with the arguments taken from the last one
RECURSIVE bind_params_reversed(_, _, _, _)
bind_params_reversed(locals, names, vals, i) ==
  IF i > Len(vals) THEN locals
  ELSE bind_params_reversed(MapInsert(locals, names[i], vals[Len(vals) + 1 - i]),
                            names, vals, i + 1)

\* binding of the first argc arguments to code_object.names[i]
RECURSIVE bind_params(_, _, _, _)
bind_params(locals, names, vals, i) ==
  IF i > Len(vals) THEN locals
  ELSE bind_params(MapInsert(locals, names[i], vals[i]), names, vals, i + 1)

\* a call protocol that hands an object's __call__ the self of the call site
\* instead of the object called
RECURSIVE handle_call_site_self(_, _, _, _, _)
handle_call_site_self(m, func_obj, args_obj, self, depth) ==
  IF ~IsList(m, args_obj) THEN {Fail(m, "abort")}
  ELSE IF func_obj.t = "native" THEN
    { IF r[1].ev = "ok" THEN Push(r[1], r[2]) ELSE r[1] :
        r \in native_call(m, func_obj.s, self, args_obj) }
  ELSE IF func_obj.t = "fn" THEN
    LET func == func_obj.f
        args == m.hp[args_obj.v].val
        all_args == IF self # None THEN <<self>> \o args ELSE args
        new_frame == CallFrame(m.fm + 1, func.name, func_obj, 0, Last(m.cs).pc + 1, func.code)
    IN IF Len(all_args) # func.argc \/ func.argc > Len(func.code.names) THEN {Fail(m, "abort")}
       ELSE IF Len(m.cs) >= MaxDepth THEN {}
       ELSE {[m EXCEPT !.hp[args_obj.v].val = all_args,
                       !.fm = @ + 1,
                       !.cs = Append(@, [new_frame EXCEPT !.locals =
                                 bind_params(EmptyMap, func.code.names, all_args, 1)])]}
  ELSE
    LET callable == get_attr(m.hp, func_obj, "__call__")
        TypeError(x) == Throw(x, "TypeError", "try to call an uncallable object")
    IN IF callable = Diverge THEN {Fail(m, "ub")}
       ELSE IF callable = UndefinedAttribute \/ depth = 0 THEN {TypeError(m)}
       ELSE { IF r.ev = "error" THEN TypeError(r) ELSE r :
                r \in handle_call_site_self(m, callable, args_obj, self, depth - 1) }

\* Vm::handle_call(func_obj, args_obj, self); self = None when not given.
\* depth bounds the __call__ recursion.
RECURSIVE handle_call(_, _, _, _, _)
handle_call(m, func_obj, args_obj, self, depth) ==
  IF ~IsList(m, args_obj) THEN {Fail(m, "abort")}
  ELSE IF func_obj.t = "native" THEN
    { IF r[1].ev = "ok" THEN Push(r[1], r[2]) ELSE r[1] :
        r \in native_call(m, func_obj.s, self, args_obj) }
  ELSE IF func_obj.t = "fn" THEN
    LET func == func_obj.f
        args == m.hp[args_obj.v].val
        actual_argc == IF self # None THEN Len(args) + 1 ELSE Len(args)
        all_args == IF self # None THEN <<self>> \o args ELSE args
        new_frame == CallFrame(m.fm + 1, func.name, func_obj, 0, Last(m.cs).pc + 1, func.code)
    IN IF actual_argc # func.argc THEN {Fail(m, "abort")}
       ELSE IF func.argc > Len(func.code.names) THEN {Fail(m, "abort")}
       ELSE IF Len(m.cs) >= MaxDepth THEN {}
       ELSE {[m EXCEPT !.hp[args_obj.v].val = all_args,
                       !.fm = @ + 1,
                       !.cs = Append(@, [new_frame EXCEPT !.locals =
                                 bind_params(EmptyMap, func.code.names,
                                             SubSeq(all_args, 1, func.argc), 1)])]}
  ELSE
    \* an object: dispatch to __call__; any NativeFuncError thrown inside the
    \* try block is replaced by the TypeError
    LET callable == get_attr(m.hp, func_obj, "__call__")
        TypeError(x) == Throw(x, "TypeError", "try to call an uncallable object")
    IN IF callable = Diverge THEN {Fail(m, "ub")}
       ELSE IF callable = UndefinedAttribute \/ depth = 0 THEN {TypeError(m)}
       ELSE { IF r.ev = "error" THEN TypeError(r) ELSE r :
                r \in handle_call(m, callable, args_obj, func_obj, depth - 1) }


\* ------------------------------------------------------ exception machinery
\* Vm::throw_error, the scan: the call stack cut down to the first frame from
\* the top with a try-block whose catch_start is above its pc, that frame's pc
\* set to catch_start; <<>> when no frame qualifies
RECURSIVE unwind(_)
unwind(cs) ==
  IF cs = <<>> THEN <<>>
  ELSE LET frame == Last(cs)
       IN IF frame.try_blocks # <<>> /\ frame.pc < Last(frame.try_blocks)
          THEN [cs EXCEPT ![Len(cs)].pc = Last(frame.try_blocks)]
          ELSE unwind(Front(cs))

\* Vm::throw_error: resume at the handler, or report the traceback and raise
\* the stop signal (err::traceback_reporter throws KizStopRunningSignal)
throw_error(m) ==
  LET cs == unwind(m.cs)
  IN IF cs # <<>> THEN [m EXCEPT !.cs = cs] ELSE [m EXCEPT !.cs = cs, !.ev = "stop"]

\* Vm::instruction_throw(name, content): build the Error object, make it
\* curr_error, unwind
instruction_throw(m, name, content) ==
  LET err == [NewError EXCEPT !.attrs =
                 MapInsert(MapInsert(@, "__name__", StrV(name)), "__msg__", StrV(content))]
  IN throw_error([Alloc(m, err) EXCEPT !.ce = NewRef(m), !.ev = "ok", !.en = "", !.em = ""])

\* --------------------------------------------------------- opcode handlers
\* Every handler maps the machine and the instruction to the set of machines
\* it can end in; the dispatch loop's own pc handling is not part of it.
CurFrame(m) == Last(m.cs)
NameAt(m, idx) == CurFrame(m).code_object.names[idx + 1]
SetFrame(m, field, val) == [m EXCEPT !.cs[Len(m.cs)][field] = val]

\* a truth test that takes every object other than Nil and Bool(false) for true
RECURSIVE is_true_not_nil(_, _, _)
is_true_not_nil(m, obj, depth) == {<<m, obj.t # "nil" /\ (obj.t = "bool" => obj.b)>>}

\* Vm::is_true: <<machine, truth>>; __bool__ is called through call_function.
\* A __bool__ that is a Function runs in call_function's nested loop (the
\* actions call_function, CallLoopRet, CallFramePop and CallLoopExit).
RECURSIVE is_true(_, _, _)
is_true(m, obj, depth) ==
  IF obj.t = "bool" THEN {<<m, obj.b>>}
  ELSE IF obj.t = "nil" THEN {<<m, FALSE>>}
  ELSE LET method == get_attr(m.hp, obj, "__bool__")
       IN IF method = Diverge THEN {<<Fail(m, "ub"), FALSE>>}
          ELSE IF method = UndefinedAttribute
               THEN {<<Throw(m, "NameError", "Undefined attribute"), FALSE>>}
          ELSE IF ~HasRoom(m) \/ depth = 0 \/ method.t = "fn" THEN {}
          ELSE UNION { IF r.ev # "ok" THEN {<<r, FALSE>>}
                       ELSE is_true(Pop(r), Last(r.os), depth - 1) :
                         r \in handle_call(Alloc(m, NewList(<<>>)), method, NewRef(m), obj, MaxDepth) }

exec_LOAD_CONST(m, inst) ==
  LET const_idx == inst.opn[1]
  IN IF const_idx >= Len(CurFrame(m).code_object.consts) THEN {Fail(m, "abort")}
     ELSE {Push(m, CurFrame(m).code_object.consts[const_idx + 1])}

\* a frame walk that starts at the bottom of the call stack
RECURSIVE find_from_bottom(_, _, _)
find_from_bottom(cs, i, var_name) ==
  IF i = 0 THEN None
  ELSE IF var_name \in DOMAIN cs[Len(cs) + 1 - i].locals THEN cs[Len(cs) + 1 - i].locals[var_name]
  ELSE find_from_bottom(cs, i - 1, var_name)

\* the locals of the first frame from the top that binds the name
RECURSIVE find_in_frames(_, _, _)
find_in_frames(cs, i, var_name) ==
  IF i = 0 THEN None
  ELSE IF var_name \in DOMAIN cs[i].locals THEN cs[i].locals[var_name]
  ELSE find_in_frames(cs, i - 1, var_name)

exec_LOAD_VAR(m, inst) ==
  LET var_name == NameAt(m, inst.opn[1])
      var_it == find_in_frames(m.cs, Len(m.cs), var_name)
      owner_module_it == MapFind(attrs_of(m.hp, CurFrame(m).owner), "__owner_module__")
  IN IF var_it # None THEN {Push(m, var_it)}
     ELSE IF var_name \in DOMAIN Builtins THEN {Push(m, Builtins[var_name])}
     ELSE IF owner_module_it # None
     THEN IF ~(owner_module_it.t = "ref" /\ m.hp[owner_module_it.v].kind = "module")
          THEN {Fail(m, "abort")}
          ELSE IF var_name \in DOMAIN m.hp[owner_module_it.v].mattrs
               THEN {Push(m, m.hp[owner_module_it.v].mattrs[var_name])}
               ELSE {Fail(m, "ub")}      \* var_it->value with var_it == nullptr
     ELSE IF ~HasRoom(m) THEN {}
     ELSE LET t == instruction_throw(m, "NameError", "Undefined variable")
          IN IF t.ev = "stop" THEN {t}
             ELSE {Fail(t, "ub")}        \* instruction_throw returned: var_it->value on nullptr

exec_SET_LOCAL(m, inst) ==
  IF m.os = <<>> \/ inst.opn[1] >= Len(CurFrame(m).code_object.names) THEN {Fail(m, "abort")}
  ELSE {SetFrame(Pop(m), "locals", MapInsert(CurFrame(m).locals, NameAt(m, inst.opn[1]), Last(m.os)))}

\* Vm::exec_SET_GLOBAL: the bounds check uses the bottom frame's names table,
\* the name is read from the current frame's
exec_SET_GLOBAL(m, inst) ==
  IF m.cs = <<>> \/ m.os = <<>> THEN {Fail(m, "abort")}
  ELSE IF inst.opn[1] >= Len(m.cs[1].code_object.names) THEN {Fail(m, "abort")}
  ELSE IF inst.opn[1] >= Len(CurFrame(m).code_object.names) THEN {Fail(m, "ub")}
  ELSE {[Pop(m) EXCEPT !.cs[1].locals = MapInsert(@, NameAt(m, inst.opn[1]), Last(m.os))]}

\* Vm::exec_SET_NONLOCAL, the search: the index of the first frame from i
\* down whose names table is longer than name_idx and whose locals bind
\* var_name; 0 when there is none
RECURSIVE nonlocal_target(_, _, _, _)
nonlocal_target(cs, i, name_idx, var_name) ==
  IF i = 0 THEN 0
  ELSE IF name_idx >= Len(cs[i].code_object.names) THEN nonlocal_target(cs, i - 1, name_idx, var_name)
  ELSE IF var_name \in DOMAIN cs[i].locals THEN i
  ELSE nonlocal_target(cs, i - 1, name_idx, var_name)

\* Vm::exec_SET_NONLOCAL
exec_SET_NONLOCAL(m, inst) ==
  IF Len(m.cs) < 2 \/ m.os = <<>> THEN {Fail(m, "abort")}
  ELSE IF inst.opn[1] >= Len(CurFrame(m).code_object.names) THEN {Fail(m, "ub")}
  ELSE LET var_name == NameAt(m, inst.opn[1])
           target_frame == nonlocal_target(m.cs, Len(m.cs) - 1, inst.opn[1], var_name)
       IN IF target_frame = 0
          THEN IF ~HasRoom(m) THEN {}
               ELSE LET t == instruction_throw(m, "NameError", "Undefined variable")
                    IN IF t.ev = "stop" THEN {t}
                       ELSE {Fail(t, "abort")}      \* instruction_throw returned: assert(false)
          ELSE {[Pop(m) EXCEPT !.cs[target_frame].locals = MapInsert(@, var_name, Last(m.os))]}

exec_MAKE_LIST(m, inst) ==
  LET elem_count == inst.opn[1]
      n == Len(m.os)
  IN IF n < elem_count THEN {Fail(m, "abort")}
     ELSE IF ~HasRoom(m) THEN {}
     ELSE {Push(Alloc([m EXCEPT !.os = SubSeq(@, 1, n - elem_count)],
                      NewList(SubSeq(m.os, n - elem_count + 1, n))), NewRef(m))}

\* the loop of exec_MAKE_DICT: each round pops a value and a key and calls the
\* key's __hash__. A __hash__ that is a user Function runs in the nested loop
\* of call_function, which the model does not enter.
RECURSIVE make_dict_entries(_, _, _)
make_dict_entries(m, i, elem_list) ==
  IF i = 0 THEN {Push(Alloc(m, NewDict(elem_list)), NewRef(m))}
  ELSE LET value == Last(m.os)
           key == m.os[Len(m.os) - 1]
           m1 == Pop(Pop(m))
           hash_method == get_attr(m.hp, key, "__hash__")
       IN IF hash_method = Diverge THEN {Fail(m1, "ub")}
          ELSE IF hash_method = UndefinedAttribute
               THEN {Throw(m1, "NameError", "Undefined attribute")}
          ELSE IF hash_method.t # "native" THEN {}
          ELSE UNION { IF r.ev # "ok" THEN {r}
                       ELSE IF Last(r.os).t # "int" THEN {Fail(Pop(r), "abort")}
                       ELSE make_dict_entries(Pop(r), i - 1,
                                              Append(elem_list, <<Last(r.os).v, key, value>>)) :
                         r \in handle_call(Alloc(m1, NewList(<<>>)), hash_method, NewRef(m1), key,
                                           MaxDepth) }

exec_MAKE_DICT(m, inst) ==
  LET elem_count == inst.opn[1]
  IN IF Len(m.os) < elem_count * 2 THEN {Fail(m, "abort")}
     ELSE IF Len(m.hp) + elem_count >= MaxHeap THEN {}
     ELSE make_dict_entries(m, elem_count, <<>>)

exec_CALL(m, inst) ==
  IF Len(m.os) < 2 THEN {Fail(m, "abort")}
  ELSE handle_call(Pop(Pop(m)), Last(m.os), m.os[Len(m.os) - 1], None, MaxDepth)

exec_CALL_METHOD(m, inst) ==
  IF Len(m.os) < 2 THEN {Fail(m, "ub")}
  ELSE IF inst.opn[1] >= Len(CurFrame(m).code_object.names) THEN {Fail(m, "abort")}
  ELSE LET obj == Last(m.os)
           args_obj == m.os[Len(m.os) - 1]
           m1 == Pop(Pop(m))
           func_obj == get_attr(m.hp, obj, NameAt(m, inst.opn[1]))
       IN IF func_obj = Diverge THEN {Fail(m1, "ub")}
          ELSE IF func_obj = UndefinedAttribute THEN {Throw(m1, "NameError", "Undefined attribute")}
          ELSE handle_call(m1, func_obj, args_obj, obj, MaxDepth)

\* RET that forgets the Nil of a function that left nothing on the stack
exec_RET_no_default(m, inst) ==
  IF Len(m.cs) < 2
  THEN {[m EXCEPT !.os = IF @ # <<>> THEN Front(@) ELSE @, !.cs = Front(@)]}
  ELSE {[m EXCEPT !.cs = [Front(@) EXCEPT ![Len(m.cs) - 1].pc = Last(m.cs).return_to_pc]]}

exec_RET(m, inst) ==
  IF Len(m.cs) < 2
  THEN {[m EXCEPT !.os = IF @ # <<>> THEN Front(@) ELSE @, !.cs = Front(@)]}
  ELSE LET curr_frame == Last(m.cs)
           return_val == IF m.os # <<>> THEN Last(m.os) ELSE Nil
           os1 == IF m.os # <<>> THEN Front(m.os) ELSE m.os
       IN {[m EXCEPT !.cs = [Front(@) EXCEPT ![Len(m.cs) - 1].pc = curr_frame.return_to_pc],
                     !.os = Append(os1, return_val)]}

exec_GET_ATTR(m, inst) ==
  IF m.os = <<>> \/ inst.opn[1] >= Len(CurFrame(m).code_object.names) THEN {Fail(m, "abort")}
  ELSE LET attr_val == get_attr(m.hp, Last(m.os), NameAt(m, inst.opn[1]))
       IN IF attr_val = Diverge THEN {Fail(Pop(m), "ub")}
          ELSE IF attr_val = UndefinedAttribute THEN {Throw(Pop(m), "NameError", "Undefined attribute")}
          ELSE {Push(Pop(m), attr_val)}

exec_GET_ITEM(m, inst) ==
  IF Len(m.os) < 2 THEN {Fail(m, "abort")}
  ELSE LET obj == Last(m.os)
           args_obj == m.os[Len(m.os) - 1]
           m1 == Pop(Pop(m))
           getitem_method == get_attr(m.hp, obj, "__getitem__")
       IN IF ~IsList(m, args_obj) THEN {Fail(m1, "abort")}
          ELSE IF getitem_method = Diverge THEN {Fail(m1, "ub")}
          ELSE IF getitem_method = UndefinedAttribute
               THEN {Throw(m1, "NameError", "Undefined attribute")}
          ELSE handle_call(m1, getitem_method, args_obj, obj, MaxDepth)

exec_SET_ITEM(m, inst) ==
  IF Len(m.os) < 3 THEN {Fail(m, "abort")}
  ELSE LET value == Last(m.os)
           arg == m.os[Len(m.os) - 1]
           obj == m.os[Len(m.os) - 2]
           m1 == Pop(Pop(Pop(m)))
           setitem_method == get_attr(m.hp, obj, "__setitem__")
       IN IF setitem_method = Diverge THEN {Fail(m1, "ub")}
          ELSE IF setitem_method = UndefinedAttribute
               THEN {Throw(m1, "NameError", "Undefined attribute")}
          ELSE IF ~HasRoom(m1) THEN {}
          ELSE handle_call(Alloc(m1, NewList(<<arg, value>>)), setitem_method, NewRef(m1), obj,
                           MaxDepth)

\* attrs of the other literal objects (Int, String, ...) are not tracked by
\* the model, so SET_ATTR is defined on heap objects and functions only
exec_SET_ATTR(m, inst) ==
  IF Len(m.os) < 2 \/ inst.opn[1] >= Len(CurFrame(m).code_object.names) THEN {Fail(m, "abort")}
  ELSE LET attr_val == Last(m.os)
           obj == m.os[Len(m.os) - 1]
           attr_name == NameAt(m, inst.opn[1])
       IN IF obj.t = "ref"
          THEN {[Pop(Pop(m)) EXCEPT !.hp[obj.v].attrs = MapInsert(@, attr_name, attr_val)]}
          ELSE IF obj.t # "fn" THEN {}
          ELSE IF fn_cells(m.hp, obj.f) # {}
          THEN {[Pop(Pop(m)) EXCEPT !.hp[CHOOSE i \in fn_cells(m.hp, obj.f) : TRUE].attrs =
                                      MapInsert(@, attr_name, attr_val)]}
          ELSE IF ~HasRoom(m) THEN {}
          ELSE {Alloc(Pop(Pop(m)),
                      [Cell("function", MapInsert(FunctionAttrs, attr_name, attr_val), <<>>)
                         EXCEPT !.fn = obj.f])}

\* exec_ADD: fetch_two_from_stack_top, then left.__add__([right]) with self = left
exec_OP_ADD(m, inst) ==
  IF Len(m.os) < 2 THEN {Fail(m, "abort")}
  ELSE LET b == Last(m.os)
           a == m.os[Len(m.os) - 1]
           m1 == Pop(Pop(m))
           method == get_attr(m.hp, a, "__add__")
       IN IF method = Diverge THEN {Fail(m1, "ub")}
          ELSE IF method = UndefinedAttribute THEN {Throw(m1, "NameError", "Undefined attribute")}
          ELSE IF ~HasRoom(m1) THEN {}
          ELSE handle_call(Alloc(m1, NewList(<<b>>)), method, NewRef(m1), a, MaxDepth)

\* a binary handler that takes the top of the stack for the left operand
exec_binary_swapped(m, magic) ==
  IF Len(m.os) < 2 THEN {Fail(m, "abort")}
  ELSE LET a == Last(m.os)
           b == m.os[Len(m.os) - 1]
           m1 == Pop(Pop(m))
           method == get_attr(m.hp, a, magic)
       IN IF method = Diverge THEN {Fail(m1, "ub")}
          ELSE IF method = UndefinedAttribute THEN {Throw(m1, "NameError", "Undefined attribute")}
          ELSE IF ~HasRoom(m1) THEN {}
          ELSE handle_call(Alloc(m1, NewList(<<b>>)), method, NewRef(m1), a, MaxDepth)

\* exec_SUB, exec_MUL, exec_DIV, exec_MOD, exec_POW, exec_EQ, exec_GT, exec_LT:
\* fetch_two_from_stack_top, then left.__x__([right]) with self = left, for the
\* attribute name of the opcode
exec_binary(m, magic) ==
  IF Len(m.os) < 2 THEN {Fail(m, "abort")}
  ELSE LET b == Last(m.os)
           a == m.os[Len(m.os) - 1]
           m1 == Pop(Pop(m))
           method == get_attr(m.hp, a, magic)
       IN IF method = Diverge THEN {Fail(m1, "ub")}
          ELSE IF method = UndefinedAttribute THEN {Throw(m1, "NameError", "Undefined attribute")}
          ELSE IF ~HasRoom(m1) THEN {}
          ELSE handle_call(Alloc(m1, NewList(<<b>>)), method, NewRef(m1), a, MaxDepth)

\* an AND that yields the truth of its left operand as a Bool
exec_AND_coerced(m, inst) ==
  IF Len(m.os) < 2 THEN {Fail(m, "abort")}
  ELSE { IF r[1].ev # "ok" THEN r[1] ELSE Push(r[1], BoolV(r[2])) :
           r \in is_true(Pop(Pop(m)), m.os[Len(m.os) - 1], MaxDepth) }

\* Vm::exec_NOT: Bool(!is_true(a))
exec_OP_NOT(m, inst) ==
  IF m.os = <<>> THEN {Fail(m, "abort")}
  ELSE { IF r[1].ev # "ok" THEN r[1] ELSE Push(r[1], BoolV(~r[2])) :
           r \in is_true(Pop(m), Last(m.os), MaxDepth) }

\* Vm::exec_AND: a when is_true(a) is false, else b
exec_OP_AND(m, inst) ==
  IF Len(m.os) < 2 THEN {Fail(m, "abort")}
  ELSE LET b == Last(m.os)
           a == m.os[Len(m.os) - 1]
       IN { IF r[1].ev # "ok" THEN r[1] ELSE Push(r[1], IF ~r[2] THEN a ELSE b) :
              r \in is_true(Pop(Pop(m)), a, MaxDepth) }

\* Vm::exec_OR: a when is_true(a) is true, else b
exec_OP_OR(m, inst) ==
  IF Len(m.os) < 2 THEN {Fail(m, "abort")}
  ELSE LET b == Last(m.os)
           a == m.os[Len(m.os) - 1]
       IN { IF r[1].ev # "ok" THEN r[1] ELSE Push(r[1], IF r[2] THEN a ELSE b) :
              r \in is_true(Pop(Pop(m)), a, MaxDepth) }

exec_JUMP(m, inst) ==
  IF inst.opn[1] > Len(CurFrame(m).code_object.code) THEN {Fail(m, "abort")}
  ELSE {SetFrame(m, "pc", inst.opn[1])}

\* exec_JUMP_IF_FALSE once is_true has returned: the jump or pc++, on the
\* frame that is then on top of the call stack
jump_if_false_tail(m, inst, truth) ==
  IF m.cs = <<>> THEN Fail(m, "ub")                          \* call_stack.back() on an empty vector
  ELSE IF ~truth
       THEN IF inst.opn[1] > Len(CurFrame(m).code_object.code) THEN Fail(m, "abort")
            ELSE SetFrame(m, "pc", inst.opn[1])
       ELSE SetFrame(m, "pc", CurFrame(m).pc + 1)

exec_JUMP_IF_FALSE(m, inst) ==
  IF m.os = <<>> THEN {Fail(m, "abort")}
  ELSE { IF r[1].ev # "ok" THEN r[1] ELSE jump_if_false_tail(r[1], inst, r[2]) :
           r \in is_true(Pop(m), Last(m.os), MaxDepth) }

\* Vm::is_true after its call_function has returned from the nested loop:
\* fetch_one_from_stack_top, is_true of the result, then the rest of
\* exec_JUMP_IF_FALSE
is_true_resume(m, inst) ==
  IF m.os = <<>> THEN {Fail(m, "abort")}
  ELSE { IF r[1].ev # "ok" THEN r[1] ELSE jump_if_false_tail(r[1], inst, r[2]) :
           r \in is_true(Pop(m), Last(m.os), MaxDepth) }

exec_TRY_START(m, inst) ==
  {SetFrame(m, "try_blocks", Append(CurFrame(m).try_blocks, inst.opn[1]))}

exec_TRY_END(m, inst) ==
  IF CurFrame(m).try_blocks = <<>> THEN {Fail(m, "ub")}      \* pop_back on an empty vector
  ELSE {SetFrame(SetFrame(m, "try_blocks", Front(CurFrame(m).try_blocks)), "pc", inst.opn[1])}

exec_LOAD_ERROR(m, inst) == {Push(m, m.ce)}

exec_IS_INSTANCE(m, inst) ==
  IF Len(m.os) < 2 THEN {Fail(m, "abort")}
  ELSE LET b == Last(m.os)
           a == m.os[Len(m.os) - 1]
       IN IF a = None \/ b = None THEN {Fail(m, "ub")}
          ELSE {Push(Pop(Pop(m)), BoolV(check_based_object(m.hp, a, b, Len(m.hp) + 1)))}

exec_THROW(m, inst) ==
  IF m.os = <<>> THEN {Fail(m, "ub")}                        \* op_stack.top() on an empty stack
  ELSE IF ~IsError(m, Last(m.os)) THEN {Fail(m, "abort")}
  ELSE {throw_error([Pop(m) EXCEPT !.ce = Last(m.os)])}

exec_CREATE_OBJECT(m, inst) ==
  IF ~HasRoom(m) THEN {}
  ELSE {Push(Alloc(m, Cell("object", MapInsert(EmptyMap, "__parent__", Ref(based_obj)), <<>>)),
             NewRef(m))}


\* ---------------------------------------------------------------- programs
\* AST nodes of parser/ast.hpp
Num(n) == [k |-> "Number", value |-> n]
Str(v) == [k |-> "String", value |-> v]
Id(name) == [k |-> "Identifier", name |-> name]
Bin(op, l, r) == [k |-> "Binary", op |-> op, left |-> l, right |-> r]
Not(operand) == [k |-> "Unary", op |-> "not", operand |-> operand]
Call(callee, args) == [k |-> "Call", callee |-> callee, args |-> args]
ListE(elements) == [k |-> "List", elements |-> elements]
Member(father, child) == [k |-> "GetMember", father |-> father, child |-> child]
Fn(name, params, body) == [k |-> "FuncDecl", name |-> name, params |-> params, body |-> body]
Assign(name, expr) == [k |-> "Assign", name |-> name, expr |-> expr]
NonlocalAssign(name, expr) == [k |-> "NonlocalAssign", name |-> name, expr |-> expr]
GlobalAssign(name, expr) == [k |-> "GlobalAssign", name |-> name, expr |-> expr]
ExprS(expr) == [k |-> "ExprStmt", expr |-> expr]
Ret(expr) == [k |-> "Return", expr |-> expr]
ThrowS(expr) == [k |-> "Throw", expr |-> expr]
ForS(var, iter, body) == [k |-> "For", item_var_name |-> var, iter |-> iter, body |-> body]
Catch(error, var, body) == [error |-> error, var_name |-> var, catch_block |-> body]
TryS(body, catches) == [k |-> "Try", try_block |-> body, catch_blocks |-> catches]
ImportS(path) == [k |-> "Import", path |-> path]
ObjectS(name, parent, body) == [k |-> "Object", name |-> name, parent_name |-> parent, body |-> body]
Field(name, expr) == [name |-> name, expr |-> expr]
SetMember(father, child, val) == [k |-> "SetMember", father |-> father, child |-> child, val |-> val]
DictE(elements) == [k |-> "Dict", elements |-> elements]
GetItem(father, params) == [k |-> "GetItem", father |-> father, params |-> params]
SetItem(father, param, val) == [k |-> "SetItem", father |-> father, param |-> param, val |-> val]
\* "fn name(params) ... end" parses to an assignment of the function expression
FnS(name, params, body) == Assign(name, Fn(name, params, body))
Show(expr) == ExprS(Call(Id("print"), <<expr>>))
NewErr(name, msg) == Call(Id("Error"), <<Str(name), Str(msg)>>)

\* the files an import can find, by path
FileSystem ==
  ("m.kiz" :> <<Assign("x", Num(1)), Assign("__private__y", Num(2))>>) @@
  ("r.kiz" :> <<Ret(Num(1))>>) @@
  ("t.kiz" :> <<ThrowS(NewErr("E", "in module"))>>) @@
  ("a.kiz" :> <<ImportS("b.kiz")>>) @@
  ("b.kiz" :> <<ImportS("a.kiz")>>) @@
  ("n.kiz" :> <<Assign("q", Num(1)), Assign("w", Member(Id("q"), "foo"))>>) @@
  ("s.kiz" :> <<Assign("y", Call(Id("halt"), <<>>)), Assign("z", Num(1))>>)

\* get_file_name_by_path: the file name without its last extension
get_file_name_by_path(path) ==
  CASE path = "m.kiz" -> "m" [] path = "r.kiz" -> "r" [] path = "t.kiz" -> "t"
    [] path = "a.kiz" -> "a" [] path = "b.kiz" -> "b" [] path = "n.kiz" -> "n"
    [] path = "s.kiz" -> "s"
    [] OTHER -> path

\* name.starts_with("__private__") on the names the programs use
starts_with_private(name) == name \in {"__private__y"}

\* a function whose code is the single instruction RET, called from a module
\* with an empty operand stack
RawRet ==
  CodeObject(<< Inst("MAKE_LIST", <<0>>), Inst("LOAD_CONST", <<0>>), Inst("CALL", <<0>>),
                Inst("SET_LOCAL", <<0>>) >>,
             << FnV("bare", CodeObject(<<Inst("RET", <<>>)>>, <<>>, <<>>), 0) >>,
             << "r" >>)

\* The generator emits no STOP and ends every function with RET: the code
\* objects that have a STOP or end without RET are built by hand.
\* a function that stops the VM, and a call of it from the module
Halt == FnV("halt", CodeObject(<< Inst("STOP", <<>>), Inst("LOAD_CONST", <<0>>), Inst("RET", <<>>) >>,
                               << IntV(1) >>, <<>>), 0)
RawStop ==
  CodeObject(<< Inst("MAKE_LIST", <<0>>), Inst("LOAD_CONST", <<0>>), Inst("CALL", <<0>>),
                Inst("SET_LOCAL", <<0>>) >>,
             << Halt >>, << "r" >>)
\* a module that binds halt and imports s.kiz, whose code calls it
RawStopImport ==
  CodeObject(<< Inst("LOAD_CONST", <<0>>), Inst("SET_LOCAL", <<0>>), Inst("IMPORT", <<1>>),
                Inst("LOAD_CONST", <<1>>), Inst("SET_LOCAL", <<2>>) >>,
             << Halt, IntV(1) >>, << "halt", "s.kiz", "after" >>)
\* "T.__bool__ = f; if T x = 1 end; after = 1" for a hand-built f
RawBool(f) ==
  CodeObject(<< Inst("CREATE_OBJECT", <<>>), Inst("SET_LOCAL", <<0>>), Inst("LOAD_VAR", <<0>>),
                Inst("LOAD_CONST", <<0>>), Inst("SET_ATTR", <<1>>), Inst("LOAD_VAR", <<0>>),
                Inst("JUMP_IF_FALSE", <<9>>), Inst("LOAD_CONST", <<1>>), Inst("SET_LOCAL", <<2>>),
                Inst("LOAD_CONST", <<1>>), Inst("SET_LOCAL", <<3>>) >>,
             << f, IntV(1) >>, << "T", "__bool__", "x", "after" >>)
\* a __bool__ that stops the VM after loading its result
BoolHalts ==
  FnV("__bool__", CodeObject(<< Inst("LOAD_CONST", <<0>>), Inst("STOP", <<>>), Inst("RET", <<>>) >>,
                             << BoolV(TRUE) >>, << "self" >>), 1)
\* a __bool__ whose code ends without RET
BoolFallsOff ==
  FnV("__bool__", CodeObject(<< Inst("LOAD_CONST", <<0>>) >>, << BoolV(TRUE) >>, << "self" >>), 1)

RawCode ==
  [ raw_ret |-> RawRet, stop_call |-> RawStop, stop_import |-> RawStopImport,
    stop_bool |-> RawBool(BoolHalts), bool_falls_off |-> RawBool(BoolFallsOff) ]

Sources ==
  [ closure |-> << FnS("make_adder", <<"n">>,
                       << FnS("adder", <<"x">>, <<Ret(Bin("+", Id("x"), Id("n")))>>),
                          Ret(Id("adder")) >>),
                   Assign("add5", Call(Id("make_adder"), <<Num(5)>>)),
                   Show(Call(Id("add5"), <<Num(3)>>)) >>,
    try_catch |-> << TryS(<<ThrowS(NewErr("E", "boom"))>>,
                          <<Catch(Id("Error"), "e",
                                  <<Show(Member(Id("e"), "__name__")),
                                    Show(Member(Id("e"), "__msg__"))>>)>>),
                     Show(Str("after")) >>,
    prototype |-> << ObjectS("Animal", "", <<Field("speak", Fn("", <<"self">>, <<Ret(Str("hello"))>>))>>),
                     ObjectS("Dog", "Animal", <<>>),
                     Assign("d", Call(Id("create"), <<Id("Dog")>>)),
                     Show(Call(Member(Id("d"), "speak"), <<Id("d")>>)) >>,
    for_loop |-> << Assign("total", Num(0)),
                    ForS("x", ListE(<<Num(10), Num(20), Num(30)>>),
                         <<Assign("total", Bin("+", Id("total"), Id("x")))>>),
                    Show(Id("total")) >>,
    uncaught |-> << FnS("f", <<>>, <<ThrowS(NewErr("X", "msg"))>>),
                    ExprS(Call(Id("f"), <<>>)) >>,
    catch_in_caller |-> << FnS("f", <<>>, <<ThrowS(NewErr("X", "msg"))>>),
                           TryS(<<ExprS(Call(Id("f"), <<>>))>>,
                                <<Catch(Id("Error"), "e", <<Show(Str("caught"))>>)>>),
                           Show(Str("after")) >>,
    native_error |-> << Assign("x", Num(1)),
                        TryS(<<Assign("y", Member(Id("x"), "foo"))>>,
                             <<Catch(Id("Error"), "e", <<Show(Str("caught"))>>)>>),
                        Show(Str("after")) >>,
    try_normal |-> << TryS(<<Assign("x", Num(1))>>,
                           <<Catch(Id("Error"), "e", <<Show(Str("caught"))>>)>>),
                      Show(Id("x")) >>,
    call_ret |-> << FnS("f", <<"a", "b">>, <<Ret(Bin("+", Id("a"), Id("b")))>>),
                    Assign("r", Call(Id("f"), <<Num(1), Num(2)>>)),
                    Show(Id("r")) >>,
    bare_call |-> << FnS("f", <<>>, <<Ret(Num(1))>>),
                     ExprS(Call(Id("f"), <<>>)) >>,
    arity |-> << FnS("f", <<"a">>, <<Ret(Id("a"))>>),
                 Assign("r", Call(Id("f"), <<>>)) >>,
    method |-> << ObjectS("A", "", <<Field("m", Fn("", <<"self", "k">>, <<Ret(Id("k"))>>)),
                                      Field("__str__", Num(7))>>),
                  ObjectS("B", "A", <<Field("m", Fn("", <<"self", "k">>, <<Ret(Num(9))>>))>>),
                  Assign("r", Call(Member(Id("B"), "m"), <<Num(3)>>)),
                  Assign("s", Member(Id("B"), "__str__")),
                  Assign("u", Member(Id("B"), "nothing")) >>,
    import |-> << ImportS("m.kiz"), ImportS("m.kiz"), Assign("v", Id("m")) >>,
    import_ret |-> << ImportS("r.kiz"), Assign("after", Num(1)) >>,
    import_throw |-> << ImportS("t.kiz"), Assign("after", Num(1)) >>,
    import_missing |-> << ImportS("none.kiz"), Assign("after", Num(1)) >>,
    fall_off |-> << FnS("f", <<"c">>, <<[k |-> "If", condition |-> Id("c"),
                                         thenBlock |-> <<Assign("x", Num(1))>>,
                                         elseBlock |-> <<Ret(Num(2))>>]>>),
                    Assign("r", Call(Id("f"), <<[k |-> "Bool", val |-> TRUE]>>)) >>,
    top_ret |-> << Assign("x", Num(1)), Ret(Num(5)) >>,
    shadow |-> << Assign("x", Num(1)),
                  Assign("print", Num(7)),
                  FnS("f", <<"x">>, <<Ret(Id("x"))>>),
                  Assign("a", Call(Id("f"), <<Num(2)>>)),
                  Assign("b", Id("print")),
                  Assign("c", Id("x")) >>,
    owner_module |-> << ImportS("m.kiz"),
                        FnS("g", <<>>, <<Ret(Id("x"))>>),
                        SetMember(Id("g"), "__owner_module__", Id("m")),
                        Assign("r", Call(Id("g"), <<>>)) >>,
    owner_missing |-> << ImportS("m.kiz"),
                         FnS("h", <<>>, <<Ret(Id("zz"))>>),
                         SetMember(Id("h"), "__owner_module__", Id("m")),
                         Assign("s", Call(Id("h"), <<>>)) >>,
    circular |-> << ImportS("a.kiz"), Assign("after", Num(1)) >>,
    import_std |-> << ImportS("math"), ImportS("math"), Assign("after", Num(1)) >>,
    import_attr |-> << ImportS("m.kiz"), Assign("v", Member(Id("m"), "x")) >>,
    import_try |-> << TryS(<<ImportS("t.kiz")>>,
                           <<Catch(Id("Error"), "e", <<Show(Str("caught"))>>)>>),
                      Show(Str("after")) >>,
    import_try_native |-> << TryS(<<ImportS("n.kiz")>>,
                                  <<Catch(Id("Error"), "e", <<Show(Str("caught"))>>)>>),
                             Show(Str("after")) >>,
    list_next |-> << Assign("l", ListE(<<Num(10), Num(20)>>)),
                     Assign("a", Call(Member(Id("l"), "__next__"), <<>>)),
                     Assign("b", Call(Member(Id("l"), "__next__"), <<>>)),
                     Assign("c", Call(Member(Id("l"), "__next__"), <<>>)),
                     Assign("d", Call(Member(Id("l"), "__next__"), <<>>)),
                     Assign("e", ListE(<<>>)),
                     Assign("f", Call(Member(Id("e"), "__next__"), <<>>)) >>,
    dict |-> << Assign("d", DictE(<< <<Str("a"), Num(1)>>, <<Str("b"), Num(2)>> >>)),
                Show(Bin("+", GetItem(Id("d"), <<Str("a")>>), GetItem(Id("d"), <<Str("b")>>))) >>,
    dict_set |-> << Assign("d", DictE(<<>>)),
                    SetItem(Id("d"), Str("a"), Num(1)),
                    Show(GetItem(Id("d"), <<Str("a")>>)) >>,
    self_parent |-> << ObjectS("A", "A", <<>>),
                       Assign("v", Member(Id("A"), "nothing")) >>,
    parent_cycle |-> << ObjectS("A", "", <<Field("m", Num(1))>>),
                        ObjectS("B", "A", <<>>),
                        SetMember(Id("A"), "__parent__", Id("B")),
                        Assign("w", Member(Id("B"), "m")),
                        Assign("v", Member(Id("B"), "nothing")) >>,
    callable |-> << ObjectS("A", "", <<Field("__call__", Fn("", <<"self", "k">>, <<Ret(Id("k"))>>))>>),
                    ObjectS("B", "A", <<>>),
                    Assign("r", Call(Id("B"), <<Num(3)>>)),
                    SetMember(Id("A"), "__call__", Member(Id("A"), "__eq__")),
                    Assign("s", Call(Id("B"), <<Id("B")>>)) >>,
    uncallable |-> << Assign("o", Call(Id("create"), <<>>)),
                      TryS(<<Assign("r", Call(Id("o"), <<Num(1)>>))>>,
                           <<Catch(Id("Error"), "e", <<Show(Member(Id("e"), "__msg__"))>>)>>) >>,
    truthy |-> << ObjectS("T", "", <<Field("__bool__", Fn("", <<"self">>,
                                                      <<Ret([k |-> "Bool", val |-> FALSE])>>))>>),
                  [k |-> "If", condition |-> Id("T"),
                   thenBlock |-> <<Assign("x", Num(1))>>,
                   elseBlock |-> <<Assign("x", Num(2))>>],
                  Assign("after", Id("x")) >>,
    bool_calls |-> << FnS("g", <<>>, <<Ret([k |-> "Bool", val |-> FALSE])>>),
                      ObjectS("T", "", <<Field("__bool__", Fn("", <<"self">>,
                                                          <<Ret(Call(Id("g"), <<>>))>>))>>),
                      [k |-> "If", condition |-> Id("T"),
                       thenBlock |-> <<Assign("x", Num(1))>>,
                       elseBlock |-> <<Assign("x", Num(2))>>] >>,
    bool_try |-> << ObjectS("T", "", <<Field("__bool__", Fn("", <<"self">>,
                      << TryS(<<Assign("y", Member(Id("self"), "nope"))>>,
                              <<Catch(Id("Error"), "e", <<Assign("y", Num(0))>>)>>),
                         Ret([k |-> "Bool", val |-> TRUE]) >>))>>),
                    [k |-> "If", condition |-> Id("T"),
                     thenBlock |-> <<Assign("x", Num(1))>>,
                     elseBlock |-> <<Assign("x", Num(2))>>] >>,
    call_raises |-> << Assign("o", Call(Id("create"), <<Id("Object")>>)),
                       SetMember(Id("o"), "__call__", Member(Id("o"), "__getitem__")),
                       Assign("r", Call(Id("o"), <<Str("nope")>>)) >>,
    bool_chain |-> << ObjectS("T", "", <<Field("__bool__", Fn("", <<"self">>, <<Ret(Num(0))>>))>>),
                      [k |-> "If", condition |-> Id("T"),
                       thenBlock |-> <<Assign("x", Num(1))>>,
                       elseBlock |-> <<Assign("x", Num(2))>>] >>,
    bool_throws |-> << ObjectS("T", "", <<Field("__bool__", Fn("", <<"self">>,
                                                          <<ThrowS(NewErr("E", "no truth"))>>))>>),
                       [k |-> "If", condition |-> Id("T"),
                        thenBlock |-> <<Assign("x", Num(1))>>,
                        elseBlock |-> <<Assign("x", Num(2))>>] >>,
    stale_try |-> << Assign("n", [k |-> "Bool", val |-> FALSE]),
                     [k |-> "While", condition |-> [k |-> "Bool", val |-> TRUE],
                      body |-> << [k |-> "If", condition |-> Id("n"),
                                   thenBlock |-> <<ThrowS(Id("e"))>>, elseBlock |-> <<>>],
                                  Assign("n", [k |-> "Bool", val |-> TRUE]),
                                  TryS(<<ExprS(Member(Id("n"), "nope"))>>,
                                       <<Catch(Id("Error"), "e", <<>>)>>) >>] >>,
    nested_try |-> << TryS(<< TryS(<<ExprS(Member(Id("Error"), "nope"))>>,
                                   <<Catch(Id("Error"), "e", <<>>)>>),
                              ThrowS(Id("e")) >>,
                           <<Catch(Id("Error"), "f", <<>>)>>) >>,
    nonlocal_set |-> << Assign("x", Num(1)),
                        FnS("f", <<>>, << FnS("g", <<>>, <<NonlocalAssign("x", Num(2))>>),
                                          Assign("r", Call(Id("g"), <<>>)) >>),
                        Assign("r", Call(Id("f"), <<>>)) >>,
    nonlocal_skip |-> << FnS("f", <<>>, << Assign("a", Num(1)), Assign("b", Num(2)),
                                           Assign("c", Num(3)),
                                           NonlocalAssign("x", Num(3)) >>),
                         Assign("x", Num(1)),
                         Assign("r", Call(Id("f"), <<>>)) >>,
    nonlocal_none |-> << FnS("f", <<>>, <<NonlocalAssign("x", Num(3))>>),
                         Assign("r", Call(Id("f"), <<>>)) >>,
    global_set |-> << FnS("f", <<>>, << FnS("g", <<>>, <<GlobalAssign("v", Num(5))>>),
                                        Assign("r", Call(Id("g"), <<>>)) >>),
                      Assign("r", Call(Id("f"), <<>>)) >>,
    global_index |-> << FnS("f", <<>>, << Assign("a", Num(1)), Assign("b", Num(2)),
                                          GlobalAssign("v", Num(5)) >>),
                        Assign("r", Call(Id("f"), <<>>)) >>,
    call_nil |-> << FnS("f", <<>>, <<Assign("p", [k |-> "Nil"]),
                                    Assign("q", Call(Id("p"), <<>>))>>),
                    Assign("r", Call(Id("f"), <<>>)) >> ]

\* programs of arithmetic, comparison and logic operators
OperatorSources ==
  [ arith |-> << Assign("a", Bin("-", Num(7), Num(2))), Assign("b", Bin("*", Num(2), Num(3))),
                 Assign("c", Bin("/", Num(6), Num(2))), Assign("d", Bin("%", Num(7), Num(4))),
                 Assign("e", Bin("^", Num(2), Num(3))) >>,
    compare |-> << Assign("p", Bin("==", Num(1), Num(1))), Assign("q", Bin(">", Num(2), Num(1))),
                   Assign("r", Bin("<", Num(2), Num(1))),
                   Assign("s", Bin("==", Id("Object"), Id("Int"))) >>,
    logic_and |-> << Assign("a", Bin("and", Num(0), Num(5))), Assign("b", Bin("and", Num(3), Num(4))),
                     Assign("c", Bin("and", [k |-> "Nil"], Num(1))),
                     Assign("d", Bin("and", ListE(<<>>), ListE(<<Num(2)>>))) >>,
    logic_or |-> << Assign("a", Bin("or", Num(0), Num(5))), Assign("b", Bin("or", Num(3), Num(4))),
                    Assign("c", Bin("or", ListE(<<>>), ListE(<<Num(2)>>))),
                    Assign("d", Bin("or", [k |-> "Bool", val |-> TRUE], Num(1))) >>,
    logic_not |-> << Assign("a", Not(Num(0))), Assign("b", Not([k |-> "Nil"])),
                     Assign("c", Not([k |-> "Bool", val |-> TRUE])), Assign("d", Not(Str(""))),
                     Assign("e", Not(ListE(<<Num(1)>>))) >>,
    sums |-> << Assign("a", Bin("+", Num(1), Num(2))), Assign("b", Bin("-", Id("a"), Id("a"))),
                Assign("c", Bin("==", Id("b"), Num(0))) >>,
    div_zero |-> << Assign("a", Bin("/", Num(1), Num(0))) >>,
    sub_list |-> << Assign("a", Bin("-", ListE(<<>>), Num(1))) >> ]

Programs == DOMAIN Sources \cup DOMAIN RawCode
CodeOf(p) == IF p \in DOMAIN RawCode THEN RawCode[p] ELSE gen(Sources[p])

\* ----------------------------------------------------------- dispatch loop
MainModule == 14
NoInst == Inst("", <<>>)
\* a dispatch loop on the native stack: the main loop, the loop of an
\* exec_IMPORT or the loop of a call_function. old is its old_call_stack_size,
\* cf the frame whose instruction it serves, inst that instruction, mod and
\* path the module of an import
NoLoop == [kind |-> "main", old |-> 0, cf |-> 0, mod |-> None, path |-> "", inst |-> NoInst]

\* Vm::load: the main module's frame, running set
Init ==
  /\ program \in Programs
  /\ \E code \in {CodeOf(program)} :
       /\ heap = Append(InitHeap, NewModule(program, code))
       /\ call_stack = << CallFrame(1, program, Ref(MainModule), 0, Len(code.code), code) >>
  /\ op_stack = <<>>
  /\ running = TRUE
  /\ curr_error = None
  /\ loaded_modules = EmptyMap
  /\ loops = <<NoLoop>>
  /\ status = "run"
  /\ output = <<>>
  /\ frames_made = 1
  /\ curr_inst = NoInst
  /\ inputs_read = 0

\* a loop head that does not test running
fetch_ignoring_running(opc) ==
  /\ status = "run" /\ call_stack # <<>>
  /\ Last(loops).kind # "repl"
  /\ Last(loops).kind = "call" => Len(call_stack) > Last(loops).old
  /\ Last(call_stack).pc < Len(Last(call_stack).code_object.code)
  /\ Last(call_stack).code_object.code[Last(call_stack).pc + 1].opc = opc

\* the loop head: a frame is on top, its pc is inside its code, and the
\* instruction there has opcode opc
Fetch(opc) ==
  /\ status = "run" /\ running /\ call_stack # <<>>
  /\ Last(loops).kind # "repl"
  /\ Last(loops).kind = "call" => Len(call_stack) > Last(loops).old
  /\ Last(call_stack).pc < Len(Last(call_stack).code_object.code)
  /\ Last(call_stack).code_object.code[Last(call_stack).pc + 1].opc = opc
Fetched == Last(call_stack).code_object.code[Last(call_stack).pc + 1]

\* what a step leaves behind: the machine, the active loops, running, status
Out(m, lps, run, st) == [m |-> m, loops |-> lps, running |-> run, status |-> st]

\* curr_frame.pc++ through the reference taken at the loop head; when the
\* frame has been destroyed meanwhile the write goes to freed memory
Incr(m, fid) ==
  IF \E i \in 1..Len(m.cs) : m.cs[i].fid = fid
  THEN {[m EXCEPT !.cs[CHOOSE i \in 1..Len(m.cs) : m.cs[i].fid = fid].pc = @ + 1]}
  ELSE {m, Fail(m, "ub")}

NoInc == {"JUMP", "JUMP_IF_FALSE", "RET"}

\* the loop body after the handler has returned
AfterHandler(m, opc, fid, lps, run) ==
  { Out(x, lps, run, IF x.ev = "ub" THEN "ub" ELSE "run") :
      x \in (IF opc \in NoInc THEN {m} ELSE Incr(m, fid)) }

\* exec_IMPORT returns to the loop that dispatched it
ImportReturns(m, lps, run) == AfterHandler(m, "IMPORT", Last(lps).cf, Front(lps), run)

RECURSIVE Stop(_, _), Caught(_, _, _), CallReturns(_, _, _)

\* call_function returns to is_true, which returns to exec_JUMP_IF_FALSE,
\* which returns to the loop that dispatched it
CallReturns(m, lps, run) ==
  UNION { CASE x.ev = "ok" -> AfterHandler(x, "JUMP_IF_FALSE", Last(lps).cf, Front(lps), run)
            [] x.ev = "error" -> Caught(x, Front(lps), run)
            [] x.ev = "stop" -> Stop(x, Front(lps))
            [] OTHER -> {Out(x, Front(lps), run, x.ev)} :
          x \in is_true_resume(m, Last(lps).inst) }

\* a KizStopRunningSignal reaches the catch clause of the innermost loop of
\* lps: exec_IMPORT and call_function clear running and return
Stop(m, lps) ==
  IF Last(lps).kind = "main" THEN {Out(m, lps, FALSE, "stopped")}
  ELSE IF Last(lps).kind = "import" THEN ImportReturns(m, lps, FALSE)
  ELSE CallReturns(m, lps, FALSE)

\* a NativeFuncError reaches the catch clause of the innermost loop:
\* instruction_throw, then the main loop continues, exec_IMPORT and
\* call_function return
Caught(m, lps, run) ==
  IF ~HasRoom(m) THEN {}
  ELSE LET t == instruction_throw(m, m.en, m.em)
       IN IF Last(lps).kind = "main"
          THEN IF t.ev = "stop" THEN Stop(t, lps) ELSE {Out(t, lps, run, "run")}
          ELSE IF t.ev = "stop" THEN Stop(t, Front(lps))
          ELSE IF Last(lps).kind = "import" THEN ImportReturns(t, lps, run)
          ELSE CallReturns(t, lps, run)

Commit(r, opc, fid) ==
  CASE r.ev = "ok" -> AfterHandler(r, opc, fid, loops, running)
    [] r.ev = "error" -> Caught(r, loops, running)
    [] r.ev = "stop" -> Stop(r, loops)
    [] OTHER -> {Out(r, loops, running, r.ev)}

Apply(o) ==
  /\ call_stack' = o.m.cs /\ op_stack' = o.m.os /\ heap' = o.m.hp
  /\ curr_error' = o.m.ce /\ loaded_modules' = o.m.lm /\ output' = o.m.out
  /\ frames_made' = o.m.fm
  /\ loops' = o.loops /\ running' = o.running /\ status' = o.status
  /\ UNCHANGED <<program, inputs_read>>

\* one iteration of a dispatch loop on an instruction with opcode opc
Step(opc, results) ==
  /\ Fetch(opc)
  /\ curr_inst' = Fetched
  /\ \E r \in results : \E o \in Commit(r, opc, Last(call_stack).fid) : Apply(o)


\* ------------------------------------------------------------------ actions
LOAD_CONST == Step("LOAD_CONST", exec_LOAD_CONST(Machine, Fetched))
LOAD_VAR == Step("LOAD_VAR", exec_LOAD_VAR(Machine, Fetched))
SET_LOCAL == Step("SET_LOCAL", exec_SET_LOCAL(Machine, Fetched))
SET_GLOBAL == Step("SET_GLOBAL", exec_SET_GLOBAL(Machine, Fetched))
SET_NONLOCAL == Step("SET_NONLOCAL", exec_SET_NONLOCAL(Machine, Fetched))
MAKE_LIST == Step("MAKE_LIST", exec_MAKE_LIST(Machine, Fetched))
CALL == Step("CALL", exec_CALL(Machine, Fetched))
CALL_METHOD == Step("CALL_METHOD", exec_CALL_METHOD(Machine, Fetched))
\* the RET of the frame a call_function waits for is taken by its own loop
RET ==
  /\ ~(Last(loops).kind = "call" /\ Last(loops).old = Len(call_stack) - 1)
  /\ Step("RET", exec_RET(Machine, Fetched))
GET_ATTR == Step("GET_ATTR", exec_GET_ATTR(Machine, Fetched))
SET_ATTR == Step("SET_ATTR", exec_SET_ATTR(Machine, Fetched))
OP_ADD == Step("OP_ADD", exec_OP_ADD(Machine, Fetched))
OP_SUB == Step("OP_SUB", exec_binary(Machine, "__sub__"))
OP_MUL == Step("OP_MUL", exec_binary(Machine, "__mul__"))
OP_DIV == Step("OP_DIV", exec_binary(Machine, "__div__"))
OP_MOD == Step("OP_MOD", exec_binary(Machine, "__mod__"))
OP_POW == Step("OP_POW", exec_binary(Machine, "__pow__"))
OP_EQ == Step("OP_EQ", exec_binary(Machine, "__eq__"))
OP_GT == Step("OP_GT", exec_binary(Machine, "__gt__"))
OP_LT == Step("OP_LT", exec_binary(Machine, "__lt__"))
OP_NOT == Step("OP_NOT", exec_OP_NOT(Machine, Fetched))
OP_AND == Step("OP_AND", exec_OP_AND(Machine, Fetched))
OP_OR == Step("OP_OR", exec_OP_OR(Machine, Fetched))
JUMP == Step("JUMP", exec_JUMP(Machine, Fetched))
JUMP_IF_FALSE == Step("JUMP_IF_FALSE", exec_JUMP_IF_FALSE(Machine, Fetched))
TRY_START == Step("TRY_START", exec_TRY_START(Machine, Fetched))
TRY_END == Step("TRY_END", exec_TRY_END(Machine, Fetched))
LOAD_ERROR == Step("LOAD_ERROR", exec_LOAD_ERROR(Machine, Fetched))
IS_INSTANCE == Step("IS_INSTANCE", exec_IS_INSTANCE(Machine, Fetched))
THROW == Step("THROW", exec_THROW(Machine, Fetched))
CREATE_OBJECT == Step("CREATE_OBJECT", exec_CREATE_OBJECT(Machine, Fetched))
MAKE_DICT == Step("MAKE_DICT", exec_MAKE_DICT(Machine, Fetched))
GET_ITEM == Step("GET_ITEM", exec_GET_ITEM(Machine, Fetched))
SET_ITEM == Step("SET_ITEM", exec_SET_ITEM(Machine, Fetched))

\* Vm::exec_STOP: running is cleared; the loop then does pc++
STOP ==
  /\ Fetch("STOP")
  /\ curr_inst' = Fetched
  /\ \E o \in AfterHandler(Machine, "STOP", Last(call_stack).fid, loops, FALSE) : Apply(o)

\* exec_JUMP_IF_FALSE on an object whose __bool__ is a Function: is_true calls
\* call_function, whose handle_call pushes the function's frame, and the
\* nested loop starts
call_function ==
  /\ Fetch("JUMP_IF_FALSE") /\ op_stack # <<>>
  /\ Last(op_stack).t \notin {"bool", "nil"}
  /\ get_attr(heap, Last(op_stack), "__bool__").t = "fn"
  /\ HasRoom(Machine)
  /\ curr_inst' = Fetched
  /\ \E r \in handle_call(Alloc(Pop(Machine), NewList(<<>>)),
                           get_attr(heap, Last(op_stack), "__bool__"), NewRef(Machine),
                           Last(op_stack), MaxDepth) :
       IF r.ev = "ok"
       THEN Apply(Out(r, Append(loops, [kind |-> "call", old |-> Len(call_stack),
                                        cf |-> Last(call_stack).fid, mod |-> None, path |-> "",
                                        inst |-> Fetched]),
                      running, "run"))
       ELSE \E o \in Commit(r, "JUMP_IF_FALSE", Last(call_stack).fid) : Apply(o)

\* call_function, loop body: the RET of the frame it pushed pops that frame
\* and returns
CallLoopRet ==
  /\ Fetch("RET") /\ Last(loops).kind = "call" /\ Last(loops).old = Len(call_stack) - 1
  /\ curr_inst' = Fetched
  /\ \E o \in CallReturns([Machine EXCEPT !.cs = Front(@)], loops, running) : Apply(o)

\* Vm::entry_std_modules: the built-in modules, name -> initializer
std_modules == ("math" :> NativeV("math_lib::init_module"))

\* math_lib::init_module: new Module("math", nullptr) whose attrs bind one to
\* Int(1). The constructor of Module calls code->make_ref() on the null code:
\* the build may stop there or go on with the module.
init_module(m) ==
  { Fail(m, "ub"),
    Push(Alloc(m, [NewModule("math", NoFn.code) EXCEPT !.mattrs = ("one" :> IntV(1))]),
         NewRef(m)) }

\* exec_IMPORT up to its dispatch loop: the cache hit, a built-in module and
\* the missing file complete the handler; a found file pushes the module's
\* frame and enters the loop
IMPORT ==
  /\ Fetch("IMPORT")
  /\ curr_inst' = Fetched
  /\ LET m == Machine
         module_path == NameAt(m, Fetched.opn[1])
         fid == Last(call_stack).fid
     IN IF module_path \in DOMAIN loaded_modules
        THEN LET mod == loaded_modules[module_path]
                 r == SetFrame(m, "locals", MapInsert(CurFrame(m).locals, heap[mod.v].path, mod))
             IN \E o \in Commit(r, "IMPORT", fid) : Apply(o)
        ELSE IF module_path \in DOMAIN FileSystem
        THEN LET module_obj == NewRef(m)
             IN /\ HasRoom(m) /\ Len(call_stack) < MaxDepth
                /\ \E ir \in {gen(FileSystem[module_path])} :
                     /\ heap' = Append(heap, NewModule(module_path, ir))
                     /\ call_stack' = Append(call_stack,
                           CallFrame(frames_made + 1, module_path, module_obj, 0,
                                     Last(call_stack).pc + 1, ir))
                /\ frames_made' = frames_made + 1
                /\ loops' = Append(loops, [kind |-> "import", old |-> Len(call_stack), cf |-> fid,
                                           mod |-> module_obj, path |-> module_path,
                                           inst |-> Fetched])
                /\ UNCHANGED <<op_stack, running, curr_error, loaded_modules, status, output, program, inputs_read>>
        ELSE IF module_path \in DOMAIN std_modules
        THEN /\ HasRoom(m)
             /\ \E r \in init_module(m) : \E o \in Commit(r, "IMPORT", fid) : Apply(o)
        ELSE \E o \in Commit(Throw(m, "PathError", "Undefined module"), "IMPORT", fid) : Apply(o)

AtFrameEnd ==
  /\ status = "run" /\ running /\ call_stack # <<>>
  /\ Last(call_stack).pc >= Len(Last(call_stack).code_object.code)

\* Vm::load, loop head: a finished frame that is not the last one is popped
MainFramePop ==
  /\ AtFrameEnd /\ Last(loops).kind = "main" /\ Len(call_stack) > 1
  /\ call_stack' = Front(call_stack)
  /\ UNCHANGED <<op_stack, heap, running, curr_error, loaded_modules, loops, status, output,
                 frames_made, curr_inst, program, inputs_read>>

\* Vm::load: the loop ends on the finished module frame, on an empty call
\* stack, or with running cleared
MainLoopExit ==
  /\ status = "run" /\ Last(loops).kind = "main"
  /\ \/ ~running
     \/ call_stack = <<>>
     \/ AtFrameEnd /\ Len(call_stack) = 1
  /\ status' = IF running THEN "done" ELSE "stopped"
  /\ UNCHANGED <<call_stack, op_stack, heap, running, curr_error, loaded_modules, loops, output,
                 frames_made, curr_inst, program, inputs_read>>

\* exec_IMPORT, loop head: a finished frame above the module's frame is popped
ImportFramePop ==
  /\ AtFrameEnd /\ Last(loops).kind = "import" /\ Last(loops).old # Len(call_stack) - 1
  /\ call_stack' = Front(call_stack)
  /\ UNCHANGED <<op_stack, heap, running, curr_error, loaded_modules, loops, status, output,
                 frames_made, curr_inst, program, inputs_read>>

\* module_obj->attrs.insert(name, local) for every local but the private ones
module_exports(locals, mattrs) ==
  [name \in {n \in DOMAIN locals : ~starts_with_private(n)} |-> locals[name]] @@ mattrs

\* exec_IMPORT after its loop: export the top frame's locals, pop it, bind the
\* module in the frame below, cache it, return to the dispatching loop
import_finish(m, rec) ==
  IF m.cs = <<>> THEN Fail(m, "ub")                        \* call_stack.back() on an empty vector
  ELSE LET locals == Last(m.cs).locals
           module_name == IF "__name__" \in DOMAIN locals THEN locals["__name__"].s
                          ELSE get_file_name_by_path(rec.path)
           m1 == [m EXCEPT !.hp[rec.mod.v].mattrs = module_exports(locals, @),
                           !.hp[rec.mod.v].path = rec.path,
                           !.cs = Front(@)]
       IN IF "__name__" \in DOMAIN locals /\ locals["__name__"].t # "str" THEN Fail(m, "abort")
          ELSE IF m1.cs = <<>> THEN Fail(m1, "ub")
          ELSE [SetFrame(m1, "locals", MapInsert(CurFrame(m1).locals, module_name, rec.mod))
                  EXCEPT !.lm = MapInsert(@, rec.path, rec.mod)]

\* call_function, loop head: a finished frame is popped
CallFramePop ==
  /\ AtFrameEnd /\ Last(loops).kind = "call" /\ Len(call_stack) > Last(loops).old
  /\ call_stack' = Front(call_stack)
  /\ UNCHANGED <<op_stack, heap, running, curr_error, loaded_modules, loops, status, output,
                 frames_made, curr_inst, program, inputs_read>>

\* call_function: the loop ends with running cleared or with the call stack
\* back at its old size
CallLoopExit ==
  /\ status = "run" /\ Last(loops).kind = "call"
  /\ \/ ~running
     \/ Len(call_stack) <= Last(loops).old
  /\ \E o \in CallReturns(Machine, loops, running) : Apply(o)
  /\ UNCHANGED curr_inst

ImportLoopExit ==
  /\ status = "run" /\ Last(loops).kind = "import"
  /\ \/ ~running
     \/ call_stack = <<>>
     \/ AtFrameEnd /\ Last(loops).old = Len(call_stack) - 1
  /\ LET r == import_finish(Machine, Last(loops))
     IN \E o \in (IF r.ev = "ok" THEN ImportReturns(r, loops, running)
                  ELSE {Out(r, loops, running, r.ev)}) : Apply(o)
  /\ UNCHANGED curr_inst

Next ==
  \/ LOAD_CONST \/ LOAD_VAR \/ SET_LOCAL \/ MAKE_LIST \/ CALL \/ CALL_METHOD \/ RET
  \/ GET_ATTR \/ SET_ATTR \/ OP_ADD \/ JUMP \/ JUMP_IF_FALSE \/ TRY_START \/ TRY_END
  \/ LOAD_ERROR \/ IS_INSTANCE \/ THROW \/ CREATE_OBJECT \/ IMPORT
  \/ MAKE_DICT \/ GET_ITEM \/ SET_ITEM \/ STOP \/ SET_GLOBAL \/ SET_NONLOCAL
  \/ call_function \/ CallLoopRet \/ CallFramePop \/ CallLoopExit
  \/ MainFramePop \/ MainLoopExit \/ ImportFramePop \/ ImportLoopExit

Spec == Init /\ [][Next]_vars

\* ---------------------------------------------------------------- operators
\* Vm::load of a program of operators: the main module's frame, running set
OperatorInit ==
  /\ program \in DOMAIN OperatorSources
  /\ \E code \in {gen(OperatorSources[program])} :
       /\ heap = Append(InitHeap, NewModule(program, code))
       /\ call_stack = << CallFrame(1, program, Ref(MainModule), 0, Len(code.code), code) >>
  /\ op_stack = <<>>
  /\ running = TRUE
  /\ curr_error = None
  /\ loaded_modules = EmptyMap
  /\ loops = <<NoLoop>>
  /\ status = "run"
  /\ output = <<>>
  /\ frames_made = 1
  /\ curr_inst = NoInst
  /\ inputs_read = 0

\* the main loop over the opcodes these programs are made of
OperatorNext ==
  \/ LOAD_CONST \/ LOAD_VAR \/ SET_LOCAL \/ MAKE_LIST \/ OP_ADD
  \/ OP_SUB \/ OP_MUL \/ OP_DIV \/ OP_MOD \/ OP_POW \/ OP_EQ \/ OP_GT \/ OP_LT
  \/ OP_NOT \/ OP_AND \/ OP_OR
  \/ MainLoopExit

OperatorSpec == OperatorInit /\ [][OperatorNext]_vars


\* --------------------------------------------------------------------- REPL
\* the inputs typed in a session, each parsed on its own
Sessions ==
  [ keep |-> << <<Assign("x", Num(1))>>, <<Assign("y", Bin("+", Id("x"), Num(2)))>>,
                <<ExprS(Id("y"))>>, <<Show(Id("x"))>> >>,
    thrown |-> << <<Assign("x", Num(1))>>, <<ThrowS(NewErr("E", "boom"))>>,
                  <<Assign("y", Id("x"))>> >>,
    undefined |-> << <<Assign("y", Id("nope"))>>, <<Assign("x", Num(1))>>,
                     <<Assign("z", Id("nope"))>>, <<ExprS(Id("x"))>> >>,
    called |-> << <<FnS("f", <<>>, <<Ret(Num(1))>>), ExprS(Call(Id("f"), <<>>))>>,
                  <<ExprS(Call(Id("f"), <<>>))>>, <<Assign("x", Num(1))>> >>,
    branch |-> << <<Assign("c", [k |-> "Bool", val |-> FALSE])>>,
                  <<[k |-> "If", condition |-> Id("c"),
                     thenBlock |-> <<Assign("x", Num(1))>>,
                     elseBlock |-> <<Assign("x", Num(2))>>]>>,
                  <<ExprS(Id("x"))>> >>,
    jump_back |-> << <<Assign("a", Num(1)), Assign("b", Num(2)), Assign("d", Num(3)),
                       Assign("c", [k |-> "Bool", val |-> FALSE])>>,
                     <<[k |-> "If", condition |-> Id("c"),
                        thenBlock |-> <<Assign("x", Num(1))>>,
                        elseBlock |-> <<Assign("x", Num(2))>>]>> >>,
    caught |-> << <<Assign("x", Num(1))>>,
                  <<TryS(<<ThrowS(NewErr("E", "boom"))>>,
                         <<Catch(Id("Error"), "e", <<Assign("x", Num(2))>>)>>)>>,
                  <<ExprS(Id("x"))>> >> ]

\* Repl::Repl, Vm::Vm: the prototypes exist, nothing is loaded
ReplInit ==
  /\ program \in DOMAIN Sessions
  /\ heap = InitHeap
  /\ call_stack = <<>>
  /\ op_stack = <<>>
  /\ running = FALSE
  /\ curr_error = None
  /\ loaded_modules = EmptyMap
  /\ loops = <<NoLoop>>
  /\ status = "prompt"
  /\ output = <<>>
  /\ frames_made = 0
  /\ curr_inst = NoInst
  /\ inputs_read = 0

\* Vm::exec: the switch over the opcode. The sessions import nothing and have
\* no STOP.
exec(m, inst) ==
  CASE inst.opc = "LOAD_CONST" -> exec_LOAD_CONST(m, inst)
    [] inst.opc = "LOAD_VAR" -> exec_LOAD_VAR(m, inst)
    [] inst.opc = "SET_LOCAL" -> exec_SET_LOCAL(m, inst)
    [] inst.opc = "SET_GLOBAL" -> exec_SET_GLOBAL(m, inst)
    [] inst.opc = "SET_NONLOCAL" -> exec_SET_NONLOCAL(m, inst)
    [] inst.opc = "MAKE_LIST" -> exec_MAKE_LIST(m, inst)
    [] inst.opc = "MAKE_DICT" -> exec_MAKE_DICT(m, inst)
    [] inst.opc = "CALL" -> exec_CALL(m, inst)
    [] inst.opc = "CALL_METHOD" -> exec_CALL_METHOD(m, inst)
    [] inst.opc = "RET" -> exec_RET(m, inst)
    [] inst.opc = "GET_ATTR" -> exec_GET_ATTR(m, inst)
    [] inst.opc = "SET_ATTR" -> exec_SET_ATTR(m, inst)
    [] inst.opc = "GET_ITEM" -> exec_GET_ITEM(m, inst)
    [] inst.opc = "SET_ITEM" -> exec_SET_ITEM(m, inst)
    [] inst.opc = "OP_ADD" -> exec_OP_ADD(m, inst)
    [] inst.opc = "OP_SUB" -> exec_binary(m, "__sub__")
    [] inst.opc = "OP_MUL" -> exec_binary(m, "__mul__")
    [] inst.opc = "OP_DIV" -> exec_binary(m, "__div__")
    [] inst.opc = "OP_MOD" -> exec_binary(m, "__mod__")
    [] inst.opc = "OP_POW" -> exec_binary(m, "__pow__")
    [] inst.opc = "OP_EQ" -> exec_binary(m, "__eq__")
    [] inst.opc = "OP_GT" -> exec_binary(m, "__gt__")
    [] inst.opc = "OP_LT" -> exec_binary(m, "__lt__")
    [] inst.opc = "OP_NOT" -> exec_OP_NOT(m, inst)
    [] inst.opc = "OP_AND" -> exec_OP_AND(m, inst)
    [] inst.opc = "OP_OR" -> exec_OP_OR(m, inst)
    [] inst.opc = "JUMP" -> exec_JUMP(m, inst)
    [] inst.opc = "JUMP_IF_FALSE" -> exec_JUMP_IF_FALSE(m, inst)
    [] inst.opc = "TRY_START" -> exec_TRY_START(m, inst)
    [] inst.opc = "TRY_END" -> exec_TRY_END(m, inst)
    [] inst.opc = "LOAD_ERROR" -> exec_LOAD_ERROR(m, inst)
    [] inst.opc = "IS_INSTANCE" -> exec_IS_INSTANCE(m, inst)
    [] inst.opc = "THROW" -> exec_THROW(m, inst)
    [] inst.opc = "CREATE_OBJECT" -> exec_CREATE_OBJECT(m, inst)
    [] OTHER -> {}

\* Vm::extend_code up to its loop: the top frame's code object gets the new
\* consts and names in place of its own and the new instructions after its
\* own; pc is the old instruction count
extend_code(frame, code_object) ==
  [frame EXCEPT !.code_object = CodeObject(frame.code_object.code \o code_object.code,
                                           code_object.consts, code_object.names),
                !.pc = Len(frame.code_object.code)]

\* Repl::eval_and_print up to the execution of the input: a new main module
\* when the call stack is empty (its code then runs in the main loop, where
\* every function frame ends by RET), extend_code otherwise
eval_and_print ==
  /\ status = "prompt" /\ inputs_read < Len(Sessions[program]) /\ Len(heap) < MaxHeap
  /\ inputs_read' = inputs_read + 1
  /\ status' = "run"
  /\ LET ir == gen(Sessions[program][inputs_read + 1])
     IN IF call_stack = <<>>
        THEN /\ heap' = Append(heap, NewModule("<repl>", ir))
             /\ call_stack' = << CallFrame(frames_made + 1, "<repl>", Ref(Len(heap) + 1), 0,
                                           Len(ir.code), ir) >>
             /\ frames_made' = frames_made + 1
             /\ running' = TRUE
             /\ loops' = <<NoLoop>>
        ELSE /\ call_stack' = Append(Front(call_stack), extend_code(Last(call_stack), ir))
             /\ loops' = << [NoLoop EXCEPT !.kind = "repl", !.cf = Last(call_stack).fid] >>
             /\ UNCHANGED <<heap, frames_made, running>>
  /\ UNCHANGED <<op_stack, curr_error, loaded_modules, output, curr_inst, program>>

\* the frame extend_code holds a reference to, as a sequence of zero or one
ExtendFrame == SelectSeq(call_stack, LAMBDA f : f.fid = Last(loops).cf)

\* Vm::extend_code, one iteration of its loop: exec, then pc++ of the frame the
\* code was appended to, whatever the opcode and whatever frame is on top. An
\* exception leaves through Repl::loop's catch (...), which reads on.
ExtendStep ==
  /\ status = "run" /\ Last(loops).kind = "repl"
  /\ ExtendFrame # <<>>
  /\ ExtendFrame[1].pc < Len(ExtendFrame[1].code_object.code)
  /\ LET inst == ExtendFrame[1].code_object.code[ExtendFrame[1].pc + 1]
     IN /\ curr_inst' = inst
        /\ \E r \in exec(Machine, inst) :
             \E o \in (CASE r.ev = "ok" ->
                              { Out(x, loops, running, IF x.ev = "ub" THEN "ub" ELSE "run") :
                                  x \in Incr(r, Last(loops).cf) }
                         [] r.ev \in {"error", "stop"} -> {Out(r, <<NoLoop>>, running, "prompt")}
                         [] OTHER -> {Out(r, loops, running, r.ev)}) : Apply(o)

\* Vm::fetch_one_from_stack_top as eval_and_print uses it: the top of the
\* operand stack, popped; with an empty stack the assert fails or, compiled
\* out, nothing is returned
repl_print(m) ==
  IF m.os = <<>> THEN {Out(m, <<NoLoop>>, running, "prompt"), Out(m, <<NoLoop>>, running, "abort")}
  ELSE {Out(Pop(m), <<NoLoop>>, running, "prompt")}

\* Vm::extend_code, the end of its loop, and the rest of eval_and_print. The
\* loop reads pc through its reference: with the frame gone that is a read of
\* freed memory.
ExtendExit ==
  /\ status = "run" /\ Last(loops).kind = "repl"
  /\ \/ /\ ExtendFrame = <<>>
        /\ Apply(Out(Machine, loops, running, "ub"))
     \/ /\ ExtendFrame # <<>>
        /\ ExtendFrame[1].pc >= Len(ExtendFrame[1].code_object.code)
        /\ \E o \in repl_print(Machine) : Apply(o)
  /\ UNCHANGED curr_inst

\* set_main_module has returned (the module ran to its end) or the stop
\* signal of an uncaught error has reached Repl::loop: the next prompt
ReplPrompt ==
  /\ inputs_read > 0
  /\ \/ status = "done" /\ \E o \in repl_print(Machine) : Apply(o)
     \/ status = "stopped" /\ Apply(Out(Machine, <<NoLoop>>, running, "prompt"))
  /\ UNCHANGED curr_inst

ReplNext ==
  \/ eval_and_print \/ ExtendStep \/ ExtendExit \/ ReplPrompt
  \/ LOAD_CONST \/ LOAD_VAR \/ SET_LOCAL \/ MAKE_LIST \/ CALL \/ RET \/ MainLoopExit

ReplSpec == ReplInit /\ [][ReplNext]_vars

\* ------------------------------------------------------- reference counts
\* The reference counts of the objects a frame works with: the heap holds
\* objects with their refc, the frame's code object holds two constants, the
\* handlers below are the refcount effects of the VM's handlers.
MaxStack == 2
MaxRefc == 6

\* model::Object::Object: make_ref() in the constructor, refc_ = 1; a
\* constant has been stored once by get_or_add_const (make_ref), refc_ = 2
RcObject(kind, b, refc) ==
  [kind |-> kind, attrs |-> EmptyMap, val |-> <<>>, b |-> b, refc |-> refc]
\* model::Object::make_ref
make_ref(h, o) == [h EXCEPT ![o.v].refc = @ + 1]

\* a module frame whose constants are Nil and Bool(true)
RefInit ==
  /\ program = "refcount"
  /\ heap = << RcObject("nil", FALSE, 2), RcObject("bool", TRUE, 2) >>
  /\ call_stack = << CallFrame(1, "refcount", None, 0, 0,
                               CodeObject(<<>>, <<Ref(1), Ref(2)>>, <<"x", "y">>)) >>
  /\ op_stack = <<>>
  /\ running = TRUE
  /\ curr_error = None
  /\ loaded_modules = EmptyMap
  /\ loops = <<NoLoop>>
  /\ status = "run"
  /\ output = <<>>
  /\ frames_made = 1
  /\ curr_inst = NoInst
  /\ inputs_read = 0

RcUnchanged ==
  UNCHANGED <<running, curr_error, loaded_modules, loops, status, output, frames_made,
              program, inputs_read>>

\* Vm::exec_LOAD_CONST: const_val->make_ref(); op_stack.push(const_val)
rc_LOAD_CONST ==
  \E const_idx \in 0..1 :
    LET const_val == call_stack[1].code_object.consts[const_idx + 1]
    IN /\ Len(op_stack) < MaxStack /\ heap[const_val.v].refc < MaxRefc
       /\ heap' = make_ref(heap, const_val)
       /\ op_stack' = Append(op_stack, const_val)
       /\ curr_inst' = Inst("LOAD_CONST", <<const_idx>>)
       /\ UNCHANGED call_stack /\ RcUnchanged

\* Vm::exec_LOAD_VAR, a name bound in the frame: var_val->make_ref(); push
rc_LOAD_VAR ==
  \E name_idx \in 0..1 :
    LET var_name == call_stack[1].code_object.names[name_idx + 1]
    IN /\ var_name \in DOMAIN call_stack[1].locals
       /\ Len(op_stack) < MaxStack /\ heap[call_stack[1].locals[var_name].v].refc < MaxRefc
       /\ heap' = make_ref(heap, call_stack[1].locals[var_name])
       /\ op_stack' = Append(op_stack, call_stack[1].locals[var_name])
       /\ curr_inst' = Inst("LOAD_VAR", <<name_idx>>)
       /\ UNCHANGED call_stack /\ RcUnchanged

\* Vm::exec_SET_LOCAL: pop, var_val->make_ref(), locals.insert (HashMap::insert
\* overwrites the old value); nothing is released
rc_SET_LOCAL ==
  \E name_idx \in 0..1 :
    LET var_name == call_stack[1].code_object.names[name_idx + 1]
        var_val == Last(op_stack)
    IN /\ op_stack # <<>> /\ heap[var_val.v].refc < MaxRefc
       /\ op_stack' = Front(op_stack)
       /\ heap' = make_ref(heap, var_val)
       /\ call_stack' = [call_stack EXCEPT ![1].locals = MapInsert(@, var_name, var_val)]
       /\ curr_inst' = Inst("SET_LOCAL", <<name_idx>>)
       /\ RcUnchanged

\* Vm::exec_AND on Bool and Nil operands: fetch_two_from_stack_top pops both,
\* a or b is pushed back; no refcount is touched
rc_AND ==
  /\ Len(op_stack) >= 2
  /\ LET b == Last(op_stack)
         a == op_stack[Len(op_stack) - 1]
         truth == heap[a.v].kind = "bool" /\ heap[a.v].b
     IN op_stack' = Append(SubSeq(op_stack, 1, Len(op_stack) - 2), IF ~truth THEN a ELSE b)
  /\ curr_inst' = Inst("OP_AND", <<>>)
  /\ UNCHANGED <<heap, call_stack>> /\ RcUnchanged

RefNext == rc_LOAD_CONST \/ rc_LOAD_VAR \/ rc_SET_LOCAL \/ rc_AND
RefSpec == RefInit /\ [][RefNext]_vars


\* ================================================================== claims

\* ---- C1
\* a frame the unwinder may select: it has a try-block and its pc is before
\* the topmost catch_start
Qualifies(frame) == frame.try_blocks # <<>> /\ frame.pc < Last(frame.try_blocks)
\* the index of the first qualifying frame from the top, 0 when there is none
Selected(cs) ==
  IF \E i \in 1..Len(cs) : Qualifies(cs[i])
  THEN CHOOSE i \in 1..Len(cs) : Qualifies(cs[i]) /\ \A j \in (i + 1)..Len(cs) : ~Qualifies(cs[j])
  ELSE 0
\* THROW is about to run on an Error
ThrowsError == Fetch("THROW") /\ op_stack # <<>> /\ IsError(Machine, Last(op_stack))

\* C1: when THROW throws an error, the first frame from the top with a
\* try-block whose catch_start is above its pc is selected: the frames above it
\* are removed, the frames below it are unchanged, its pc is catch_start (the
\* next instruction executed is the one at catch_start); when no frame
\* qualifies, running is cleared.
C1_ThrowResumesAtCatchStart ==
  [][ (ThrowsError /\ THROW) =>
        IF Selected(call_stack) > 0
        THEN /\ status' = "run"
             /\ call_stack' = [SubSeq(call_stack, 1, Selected(call_stack))
                                 EXCEPT ![Selected(call_stack)].pc =
                                   Last(call_stack[Selected(call_stack)].try_blocks)]
        ELSE ~running' ]_vars

\* ---- C2
AttrNames == {"__parent__", "__str__", "__eq__", "__add__", "__call__", "__name__",
              "speak", "m", "nothing"}
\* the objects of a state: every heap cell and a literal of every kind
Objects == {Ref(i) : i \in 1..Len(heap)} \cup {Nil, IntV(1), StrV("a"), BoolV(TRUE)}
\* the chain o, o.attrs["__parent__"], ... , at most n objects long
RECURSIVE parent_chain(_, _, _)
parent_chain(h, o, n) ==
  IF n = 0 THEN <<>>
  ELSE IF "__parent__" \in DOMAIN attrs_of(h, o)
       THEN <<o>> \o parent_chain(h, attrs_of(h, o)["__parent__"], n - 1)
       ELSE <<o>>
\* o's chain ends at an object without __parent__
ChainEnds(h, o) ==
  "__parent__" \notin DOMAIN attrs_of(h, Last(parent_chain(h, o, Len(h) + 1)))
\* the positions on o's chain of the objects that bind n
Binders(h, o, n) ==
  {i \in 1..Len(parent_chain(h, o, Len(h) + 1)) :
     n \in DOMAIN attrs_of(h, parent_chain(h, o, Len(h) + 1)[i])}
Nearest(S) == CHOOSE i \in S : \A j \in S : i <= j

\* C2: get_attr(o, n) is the value n is bound to in the first object of o's
\* __parent__ chain that binds n, and the NameError "Undefined attribute" when
\* no object of the chain binds n and the chain ends at an object without
\* __parent__.
C2_GetAttrFirstBinding ==
  \A o \in Objects : \A n \in AttrNames :
    IF Binders(heap, o, n) # {}
    THEN get_attr(heap, o, n) =
           attrs_of(heap, parent_chain(heap, o, Len(heap) + 1)[Nearest(Binders(heap, o, n))])[n]
    ELSE ChainEnds(heap, o) => get_attr(heap, o, n) = UndefinedAttribute

\* C2 witness: GET_ATTR has just pushed the value of a name that two objects
\* of the receiver's chain bind differently, the nearer one's
C2_ShadowedAttrRead ==
  /\ curr_inst.opc = "GET_ATTR" /\ op_stack # <<>> /\ status = "run"
  /\ \E o \in Objects : \E n \in AttrNames :
       /\ Cardinality(Binders(heap, o, n)) >= 2
       /\ \E i \in Binders(heap, o, n) :
            attrs_of(heap, parent_chain(heap, o, Len(heap) + 1)[i])[n] # get_attr(heap, o, n)
       /\ n = call_stack[1].code_object.names[curr_inst.opn[1] + 1]
       /\ Last(op_stack) = get_attr(heap, o, n)
       /\ call_stack[1].locals["B"] = o


\* ---- C3
\* C3: frame balance. A frame pushed by CALL, CALL_METHOD or IMPORT is removed
\* exactly once and nothing else is removed on its account: while an IMPORT is
\* executing, the frames that were on the call stack before it are still
\* there, its importer's frame at the depth the IMPORT started from, so that
\* the depth after the import equals the depth before it.
C3_FrameBalance ==
  \A i \in 1..Len(loops) :
    loops[i].kind = "import" =>
      /\ Len(call_stack) >= loops[i].old
      /\ call_stack[loops[i].old].fid = loops[i].cf

InTryStatement(frame) ==
  \E i \in 1..Len(frame.code_object.code) :
    /\ frame.code_object.code[i].opc = "TRY_START"
    /\ \E j \in (i + 1)..Len(frame.code_object.code) :
         /\ frame.code_object.code[j].opc = "TRY_END"
         /\ \A l \in (i + 1)..(j - 1) : frame.code_object.code[l].opc # "TRY_END"
         /\ i - 1 < frame.pc /\ frame.pc < frame.code_object.code[j].opn[1]

\* the frame's code has a try statement inside a try body
NestsTry(frame) ==
  \E i, j \in 1..Len(frame.code_object.code) :
    /\ i < j
    /\ frame.code_object.code[i].opc = "TRY_START" /\ frame.code_object.code[j].opc = "TRY_START"
    /\ j < frame.code_object.code[i].opn[1]

\* C5: try-block discipline. Where the code nests no try statements the depth
\* of try_blocks before a TRY_START is 0: a frame that is not inside a try
\* statement, whether it has not entered one or has left it through TRY_END or
\* through a catch handler, has no try-block.
C5_TryBlockDepthRestored ==
  \A k \in 1..Len(call_stack) :
    (~NestsTry(call_stack[k]) /\ ~InTryStatement(call_stack[k]))
      => call_stack[k].try_blocks = <<>>

\* ---- C6
\* C6: a function returned from its defining function still reads that
\* function's locals: make_adder(n) returns adder(x) = x + n, add5 =
\* make_adder(5), and print(add5(3)) prints 8 with no NameError for n; the run
\* of the program ends normally with the single output 8.
C6_ClosureReadsDefiningLocals ==
  (program = "closure" /\ status # "run") =>
    /\ status = "done"
    /\ output = << <<IntV(8)>> >>

\* ---- C7
\* C7: the for loop over [10, 20, 30] with body total = total + x visits each
\* element once, in order, and ends with total = 60: total only ever holds the
\* sums 0, 10, 30 and 60 of the elements visited so far.
C7_ForLoopVisitsEachElementOnce ==
  (program = "for_loop" /\ call_stack # <<>> /\ "total" \in DOMAIN call_stack[1].locals) =>
    call_stack[1].locals["total"] \in {IntV(0), IntV(10), IntV(30), IntV(60)}

\* ---- C8
\* C8: method invocation through the prototype chain: with d = create(Dog),
\* Dog's __parent__ Animal and Animal.speak = fn(self), print(d.speak(d))
\* resolves speak along the chain, calls it without an arity error and prints
\* "hello"; the run of the program ends normally with that single output.
C8_PrototypeMethodCall ==
  (program = "prototype" /\ status # "run") =>
    /\ status = "done"
    /\ output = << <<StrV("hello")>> >>

\* ---- C9
\* the call a CALL or CALL_METHOD at the loop head is about to make: the
\* callee, the self it passes and the argument sequence, self first when set
CallSite ==
  LET top == Last(op_stack)
      args == heap[op_stack[Len(op_stack) - 1].v].val
  IN IF Fetched.opc = "CALL"
     THEN [func |-> top, self |-> None, argv |-> args]
     ELSE [func |-> get_attr(heap, top, Last(call_stack).code_object.names[Fetched.opn[1] + 1]),
           self |-> top, argv |-> <<top>> \o args]
\* a CALL or CALL_METHOD is at the loop head with a user Function as callee
CallsFunction ==
  /\ Fetch("CALL") \/ Fetch("CALL_METHOD")
  /\ Len(op_stack) >= 2
  /\ IsList(Machine, op_stack[Len(op_stack) - 1])
  /\ CallSite.func.t = "fn"

\* C9: a call of a user Function takes as arguments self (when set) followed
\* by the elements of the args list. When their number differs from argc the
\* call fails on the arity check and pushes no frame; otherwise it pushes
\* exactly one frame, with owner the function, pc 0, return_to_pc the caller's
\* pc + 1 and locals binding names[i] to the i-th argument for every i < argc.
C9_CallBindsArguments ==
  [][ (CallsFunction /\ (CALL \/ CALL_METHOD)) =>
        IF Len(CallSite.argv) # CallSite.func.f.argc
        THEN status' = "abort" /\ call_stack' = call_stack
        ELSE /\ Len(call_stack') = Len(call_stack) + 1
             /\ \A k \in 1..Len(call_stack) : call_stack'[k].fid = call_stack[k].fid
             /\ \A k \in 1..Len(call_stack) : Last(call_stack').fid # call_stack[k].fid
             /\ Last(call_stack').owner = CallSite.func
             /\ Last(call_stack').pc = 0
             /\ Last(call_stack').return_to_pc = Last(call_stack).pc + 1
             /\ Last(call_stack').code_object = CallSite.func.f.code
             /\ \A i \in 1..CallSite.func.f.argc :
                  /\ CallSite.func.f.code.names[i] \in DOMAIN Last(call_stack').locals
                  /\ Last(call_stack').locals[CallSite.func.f.code.names[i]] = CallSite.argv[i]
    ]_vars

\* C9 witness: CALL_METHOD has pushed the frame of a two-parameter method
\* called with one listed argument: self is bound to the receiver and k to
\* the argument
C9_MethodFramePushed ==
  /\ program = "method" /\ curr_inst.opc = "CALL_METHOD" /\ status = "run"
  /\ Len(call_stack) = 2
  /\ Last(call_stack).pc = 0
  /\ Last(call_stack).owner.t = "fn" /\ Last(call_stack).owner.f.argc = 2
  /\ Last(call_stack).locals["self"] = call_stack[1].locals["B"]
  /\ Last(call_stack).locals["k"] = IntV(3)

\* ---- C10
\* C10: stack balance: when the main frame of a module the generator produced
\* terminates normally, the operand stack is empty, also when the module has
\* expression statements such as a bare call.
C10_OperandStackEmptyAtExit ==
  (program \in DOMAIN Sources /\ status = "done") => op_stack = <<>>

\* ---- C11
\* the name the LOAD_VAR at the loop head loads
LoadName == Last(call_stack).code_object.names[Fetched.opn[1] + 1]
\* the frames whose locals bind it
FramesBinding == {i \in 1..Len(call_stack) : LoadName \in DOMAIN call_stack[i].locals}
\* the module the current frame's owner names as __owner_module__, if any
OwnerModule == MapFind(attrs_of(heap, Last(call_stack).owner), "__owner_module__")
InOwnerModule ==
  /\ OwnerModule # None /\ OwnerModule.t = "ref"
  /\ heap[OwnerModule.v].kind = "module"
  /\ LoadName \in DOMAIN heap[OwnerModule.v].mattrs
\* the value the lookup order frames, builtins, owner module gives
Lookup ==
  IF FramesBinding # {}
  THEN call_stack[CHOOSE i \in FramesBinding : \A j \in FramesBinding : j <= i].locals[LoadName]
  ELSE IF LoadName \in DOMAIN Builtins THEN Builtins[LoadName]
  ELSE heap[OwnerModule.v].mattrs[LoadName]

\* C11: LOAD_VAR of a name bound in a live frame, in the builtins or in the
\* owner module's attrs pushes exactly one value: the binding of the nearest
\* frame from the top when a frame binds the name (also when a builtin has
\* that name), else the builtin, else the owner module's attribute.
C11_LoadVarLookupOrder ==
  [][ (Fetch("LOAD_VAR") /\ (FramesBinding # {} \/ LoadName \in DOMAIN Builtins \/ InOwnerModule)
       /\ LOAD_VAR)
        => /\ op_stack' = Append(op_stack, Lookup)
           /\ status' = "run" ]_vars

\* C11 witness: inside f(2), with x = 1 in the module's frame and x = 2 in
\* f's frame, LOAD_VAR x has pushed 2
C11_NearestFrameWins ==
  /\ program = "shadow" /\ curr_inst.opc = "LOAD_VAR" /\ status = "run"
  /\ Len(call_stack) = 2
  /\ call_stack[1].locals["x"] = IntV(1)
  /\ call_stack[2].locals["x"] = IntV(2)
  /\ call_stack[2].code_object.names[curr_inst.opn[1] + 1] = "x"
  /\ op_stack = <<IntV(2)>>

\* ---- C12
\* C12: LOAD_VAR of a name that no live frame, the builtins and the owner
\* module bind raises the NameError "Undefined variable" and pushes nothing,
\* also when the current frame's owner has __owner_module__ set and that
\* module does not bind the name.
C12_UndefinedVariableRaises ==
  [][ (Fetch("LOAD_VAR") /\ FramesBinding = {} /\ LoadName \notin DOMAIN Builtins
       /\ ~InOwnerModule /\ LOAD_VAR)
        => /\ status' # "ub"
           /\ op_stack' = op_stack
           /\ curr_error' # None
           /\ heap'[curr_error'.v].attrs["__name__"] = StrV("NameError") ]_vars

\* the path the IMPORT at the loop head names
ImportPath == Last(call_stack).code_object.names[Fetched.opn[1] + 1]
\* an exec_IMPORT of this path is still executing the module's code
Importing(path) == \E i \in 1..Len(loops) : loops[i].kind = "import" /\ loops[i].path = path

\* C13: import is non-re-entrant per path. An IMPORT of a path whose top-level
\* code has run (the path is in loaded_modules) or is still running (a
\* circular import) hits the cache: it pushes no module frame and starts no
\* execution of that path's code.
C13_ImportOncePerPath ==
  [][ (Fetch("IMPORT") /\ (ImportPath \in DOMAIN loaded_modules \/ Importing(ImportPath))
       /\ IMPORT)
        => /\ Len(call_stack') = Len(call_stack)
           /\ frames_made' = frames_made
           /\ loops' = loops ]_vars

\* the IMPORT at the loop head comes right after an IMPORT of the same path
ReImport ==
  /\ Fetch("IMPORT")
  /\ Last(call_stack).pc > 0
  /\ Last(call_stack).code_object.code[Last(call_stack).pc] = Fetched

\* C14: loading a path and immediately re-importing it yields the same Module
\* by identity. The second IMPORT finds the path in loaded_modules, binds that
\* very object in the importer's locals and creates no Module, for a file and
\* for a built-in module alike.
C14_ReimportSameInstance ==
  [][ (ReImport /\ IMPORT)
        => /\ status' = "run"
           /\ ImportPath \in DOMAIN loaded_modules
           /\ heap' = heap
           /\ loaded_modules' = loaded_modules
           /\ \E n \in DOMAIN Last(call_stack').locals :
                Last(call_stack').locals[n] = loaded_modules[ImportPath] ]_vars

\* C15: when a file-sourced import completes, every local of the module's
\* frame whose name does not begin with __private__ is what get_attr gives for
\* that name on the Module object, and the private ones are not attributes of
\* the module.
C15_ModuleExportsReachable ==
  [][ (/\ Last(loops).kind = "import"
       /\ call_stack # <<>>
       /\ Last(call_stack).owner = Last(loops).mod
       /\ ImportLoopExit
       /\ status' = "run")
        => \A n \in DOMAIN Last(call_stack).locals :
             get_attr(heap', Last(loops).mod, n) =
               IF starts_with_private(n) THEN UndefinedAttribute
               ELSE Last(call_stack).locals[n] ]_vars

\* a step of the module's code raises an error that no frame of the import
\* catches, while a frame of the importer has an active try-block
ErrorEscapesImport ==
  /\ status = "run"
  /\ Last(loops).kind = "import"
  /\ Len(call_stack) > Last(loops).old
  /\ \A i \in (Last(loops).old + 1)..Len(call_stack) : call_stack[i].try_blocks = <<>>
  /\ \E i \in 1..Last(loops).old : call_stack[i].try_blocks # <<>>
  /\ curr_error' # curr_error
  /\ curr_error' # None

\* C16: an error that escapes the imported module's code propagates through
\* the importer as if the IMPORT itself threw. The IMPORT is over, the module's
\* frame is off the call stack, the path is not in loaded_modules, the module
\* is bound in no frame, and the importer's frame with the try-block is on top
\* holding the error.
C16_ImportErrorPropagates ==
  [][ ErrorEscapesImport
        => /\ status' = "run"
           /\ loops' = Front(loops)
           /\ Len(call_stack') <= Last(loops).old
           /\ Last(loops).path \notin DOMAIN loaded_modules'
           /\ \A i \in 1..Len(call_stack') : \A n \in DOMAIN call_stack'[i].locals :
                call_stack'[i].locals[n] # Last(loops).mod
           /\ call_stack' # <<>>
           /\ Last(call_stack').try_blocks # <<>> ]_vars

\* a CALL_METHOD is at the loop head that calls list_next on a List
CallsListNext ==
  /\ Fetch("CALL_METHOD")
  /\ Len(op_stack) >= 2
  /\ IsList(Machine, op_stack[Len(op_stack) - 1])
  /\ IsList(Machine, Last(op_stack))
  /\ CallSite.func = NativeV("list_next")
\* the cursor of a List
Cursor(h, l) == h[l.v].attrs["__current_index__"]

\* C17: List.__next__ walks the list with the cursor __current_index__. The
\* cursor of every List is an Int within 0..len; a call with the cursor below
\* len yields the element at the cursor and moves the cursor by one; a call
\* with the cursor at len yields Bool(false) and puts the cursor back to 0, so
\* len + 1 calls from 0 yield every element in order, then Bool(false), and
\* the next pass starts again at the first element. The list is not changed.
C17_ListNextCursor ==
  /\ [](\A i \in 1..Len(heap) :
          heap[i].kind = "list" =>
            \E k \in 0..Len(heap[i].val) : heap[i].attrs["__current_index__"] = IntV(k))
  /\ [][ (CallsListNext /\ CALL_METHOD)
           => LET self == Last(op_stack)
                  index == Cursor(heap, self).v
                  val == heap[self.v].val
              IN /\ status' = "run"
                 /\ Len(op_stack') = Len(op_stack) - 1
                 /\ Last(op_stack') = IF index < Len(val) THEN val[index + 1] ELSE BoolV(FALSE)
                 /\ Cursor(heap', self) = IF index < Len(val) THEN IntV(index + 1) ELSE IntV(0)
                 /\ heap'[self.v].val = val ]_vars

\* len + 1 calls on [10, 20] gave 10, 20, Bool(false), the call after them 10
\* again, and the single call on [] gave Bool(false)
C17_TwoPasses ==
  /\ program = "list_next" /\ status = "done"
  /\ LET locals == call_stack[1].locals
     IN /\ locals["a"] = IntV(10) /\ locals["b"] = IntV(20) /\ locals["c"] = BoolV(FALSE)
        /\ locals["d"] = IntV(10) /\ locals["f"] = BoolV(FALSE)
        /\ Cursor(heap, locals["l"]) = IntV(1) /\ Cursor(heap, locals["e"]) = IntV(0)

\* C18: a Dict gives back under a key the value inserted under it, whether the
\* insertion was made by a dict literal or by SET_ITEM. The dictionary
\* round-trip d = { "a" = 1, "b" = 2 }; print(d["a"] + d["b"]) ends normally
\* having printed 3, and d = {}; d["a"] = 1; print(d["a"]) having printed 1.
C18_DictRoundTrip ==
  /\ (program = "dict" /\ status # "run") => (status = "done" /\ output = << <<IntV(3)>> >>)
  /\ (program = "dict_set" /\ status # "run") => (status = "done" /\ output = << <<IntV(1)>> >>)

\* the prototype singleton of a variant
Prototype(variant) ==
  CASE variant = "nil" -> based_nil [] variant = "bool" -> based_bool
    [] variant = "int" -> based_int [] variant = "str" -> based_str
    [] variant = "fn" -> based_function [] variant = "native" -> based_native_function
    [] variant = "list" -> based_list [] variant = "dict" -> based_dict
    [] variant = "error" -> based_error [] variant = "module" -> based_module
\* o has the variant's singleton as __parent__ and is a child of it
ChildOfPrototype(h, o, variant) ==
  /\ get_attr(h, o, "__parent__") = Ref(Prototype(variant))
  /\ check_based_object(h, o, Ref(Prototype(variant)), Len(h) + 1)
\* the Functions among the constants of the frames whose attrs were never written
FreshFunctions ==
  {c \in UNION {{call_stack[i].code_object.consts[j] :
                   j \in 1..Len(call_stack[i].code_object.consts)} : i \in 1..Len(call_stack)} :
     c.t = "fn" /\ fn_cells(heap, c.f) = {}}

\* C19: an object of variant V has, right after its construction, V's
\* prototype singleton as __parent__ and is a child of it: the Nil, Bool, Int,
\* String, NativeFunction and Function values, and every List, Dictionary,
\* Error and Module at the step that creates it.
C19_ParentIsPrototype ==
  /\ [](\A o \in {Nil, BoolV(TRUE), BoolV(FALSE), IntV(0), IntV(1), StrV(""), StrV("a"),
                  NativeV("print")} \cup FreshFunctions :
          ChildOfPrototype(heap, o, o.t))
  /\ [][ \A i \in (Len(heap) + 1)..Len(heap') :
           heap'[i].kind \in {"list", "dict", "error", "module"}
             => ChildOfPrototype(heap', Ref(i), heap'[i].kind) ]_vars

\* C20: prototype chain acyclicity. In every state the __parent__ chain of
\* every object ends at an object without __parent__, so that get_attr returns
\* for every name: also after a SET_ATTR of __parent__ and after an object
\* declaration with a parent.
C20_ParentChainsEnd ==
  \A o \in Objects :
    /\ ChainEnds(heap, o)
    /\ \A n \in AttrNames : get_attr(heap, o, n) # Diverge

\* a CALL or CALL_METHOD is at the loop head whose callee is an object that is
\* neither a NativeFunction nor a Function and whose __parent__ chain ends
CallsObject ==
  /\ Fetch("CALL") \/ Fetch("CALL_METHOD")
  /\ Len(op_stack) >= 2
  /\ IsList(Machine, op_stack[Len(op_stack) - 1])
  /\ CallSite.func.t \in {"ref", "nil", "bool", "int", "str"}
  /\ ChainEnds(heap, CallSite.func)
\* the __call__ of the object called
CallAttr == get_attr(heap, CallSite.func, "__call__")
\* the arguments listed at the call site
ListedArgs == heap[op_stack[Len(op_stack) - 1].v].val

\* C21: a call of an object that is neither a NativeFunction nor a Function
\* goes to the __call__ that get_attr finds on its prototype chain, with the
\* object called as self: a Function __call__ gets a frame whose first
\* parameter is bound to the object and the next ones to the listed
\* arguments, the native __eq__ compares the object with the argument, the
\* native Error.__call__ builds the Error of its arguments. When no __call__
\* is reachable the TypeError "try to call an uncallable object" becomes the
\* current error, the operand stack has lost the callee and the argument list
\* and gained nothing, and the call stack has gained no frame.
C21_CallDispatchesToCallAttr ==
  [][ (CallsObject /\ (CALL \/ CALL_METHOD)) =>
        IF CallAttr = UndefinedAttribute
        THEN /\ curr_error' # curr_error
             /\ heap'[curr_error'.v].attrs["__name__"] = StrV("TypeError")
             /\ heap'[curr_error'.v].attrs["__msg__"] = StrV("try to call an uncallable object")
             /\ op_stack' = SubSeq(op_stack, 1, Len(op_stack) - 2)
             /\ Len(call_stack') <= Len(call_stack)
             /\ \A k \in 1..Len(call_stack') : call_stack'[k].fid = call_stack[k].fid
        ELSE IF CallAttr.t = "fn"
        THEN /\ status' = "run"
             /\ Len(call_stack') = Len(call_stack) + 1
             /\ Last(call_stack').owner = CallAttr
             /\ Last(call_stack').locals[CallAttr.f.code.names[1]] = CallSite.func
             /\ \A i \in 1..Len(ListedArgs) :
                  Last(call_stack').locals[CallAttr.f.code.names[i + 1]] = ListedArgs[i]
             /\ op_stack' = SubSeq(op_stack, 1, Len(op_stack) - 2)
        ELSE IF CallAttr = NativeV("obj_eq")
        THEN /\ status' = "run"
             /\ call_stack' = [call_stack EXCEPT ![Len(call_stack)].pc = @ + 1]
             /\ op_stack' = Append(SubSeq(op_stack, 1, Len(op_stack) - 2),
                                   BoolV(ListedArgs[1] = CallSite.func))
        ELSE CallAttr = NativeV("error_call")
               => /\ status' = "run"
                  /\ Len(op_stack') = Len(op_stack) - 1
                  /\ heap'[Last(op_stack').v].attrs["__name__"] = ListedArgs[1]
                  /\ heap'[Last(op_stack').v].attrs["__msg__"] = ListedArgs[2] ]_vars

\* C21 witness: B(3), with __call__ = fn(self, k) inherited from A, has pushed
\* the frame of that function with self bound to B and k to 3
C21_InheritedCallFrame ==
  /\ program = "callable" /\ curr_inst.opc = "CALL" /\ status = "run"
  /\ Len(call_stack) = 2 /\ Last(call_stack).pc = 0
  /\ "__call__" \notin DOMAIN heap[call_stack[1].locals["B"].v].attrs
  /\ Last(call_stack).owner = heap[call_stack[1].locals["A"].v].attrs["__call__"]
  /\ Last(call_stack).locals["self"] = call_stack[1].locals["B"]
  /\ Last(call_stack).locals["k"] = IntV(3)

\* ---- C22
\* a dispatch loop executes an instruction
ExecutesInstruction ==
  \/ LOAD_CONST \/ LOAD_VAR \/ SET_LOCAL \/ MAKE_LIST \/ CALL \/ CALL_METHOD \/ RET
  \/ GET_ATTR \/ SET_ATTR \/ OP_ADD \/ JUMP \/ JUMP_IF_FALSE \/ TRY_START \/ TRY_END
  \/ LOAD_ERROR \/ IS_INSTANCE \/ THROW \/ CREATE_OBJECT \/ IMPORT
  \/ MAKE_DICT \/ GET_ITEM \/ SET_ITEM \/ STOP \/ call_function \/ CallLoopRet
  \/ SET_GLOBAL \/ SET_NONLOCAL
  \/ OP_SUB \/ OP_MUL \/ OP_DIV \/ OP_MOD \/ OP_POW \/ OP_EQ \/ OP_GT \/ OP_LT
  \/ OP_NOT \/ OP_AND \/ OP_OR
\* a dispatch loop pops a frame that has run off its code
PopsFinishedFrame == MainFramePop \/ ImportFramePop \/ CallFramePop

\* C22: once running is false (STOP has executed, or an error nobody catches
\* has cleared it) no loop executes an instruction or pops a finished frame:
\* running stays false and each step leaves the innermost loop (the nested
\* call loop or import loop returns to the handler that entered it, the main
\* loop ends the run).
C22_NoInstructionAfterStop ==
  [][ ~running =>
        /\ ~ExecutesInstruction /\ ~PopsFinishedFrame
        /\ ~running'
        /\ (Len(loops') < Len(loops) \/ (Len(loops) = 1 /\ status' # "run"))
        /\ curr_inst' = curr_inst ]_vars

\* C22 witness: STOP has just executed inside the nested loop of a
\* call_function (a __bool__ method), itself entered from the main loop
C22_StoppedInsideCallLoop ==
  /\ ~running /\ status = "run" /\ curr_inst.opc = "STOP"
  /\ Len(loops) = 2 /\ Last(loops).kind = "call"
  /\ Len(call_stack) > Last(loops).old

\* ---- C23
\* LOAD_VAR's search of the frames finds name
Resolves(cs, name) == find_in_frames(cs, Len(cs), name) # None

\* C23: in a REPL session, from the first input on, the module-level frame at
\* the bottom of the call stack stays the same frame, every name bound in its
\* locals remains resolvable by LOAD_VAR, and whenever the REPL is between two
\* inputs the call stack holds exactly that frame.
C23_ReplOnePersistentFrame ==
  [][ inputs_read > 0 =>
        /\ status' = "prompt" => Len(call_stack') = 1
        /\ call_stack # <<>> =>
             /\ call_stack' # <<>>
             /\ call_stack'[1].fid = call_stack[1].fid
             /\ \A name \in DOMAIN call_stack[1].locals : Resolves(call_stack', name) ]_vars

\* ---- C24
\* C24: the loop iteration that executes TRY_END end_pc (the try body has
\* ended normally) leaves the frame's pc at end_pc, so the instruction
\* executed next in that frame is the first one after the catch blocks.
C24_TryEndContinuesAtEndPc ==
  [][ (Fetch("TRY_END") /\ TRY_END /\ status' = "run")
        => Last(call_stack').pc = Fetched.opn[1] ]_vars

\* ---- C25
\* the frame's pc is inside the body of a try statement of its code: after the
\* TRY_START and before its catch_start
InTryBody(frame) ==
  \E i \in 1..Len(frame.code_object.code) :
    /\ frame.code_object.code[i].opc = "TRY_START"
    /\ i - 1 < frame.pc /\ frame.pc < frame.code_object.code[i].opn[1]

\* C25: a THROW of an error executed while no frame of the call stack is
\* inside a try body is not delivered to a handler: the error is uncaught and
\* running is cleared, also when a try statement of the frame was left through
\* its catch handler earlier and the frame is now at a lower pc.
C25_ThrowOutsideTryIsUncaught ==
  [][ (ThrowsError /\ THROW /\ \A k \in 1..Len(call_stack) : ~InTryBody(call_stack[k]))
        => ~running' ]_vars

\* ---- C26
\* the TRY_START instructions (by index) whose try body the frame's pc is in
EnclosingTries(frame) ==
  { i \in 1..Len(frame.code_object.code) :
      /\ frame.code_object.code[i].opc = "TRY_START"
      /\ i - 1 < frame.pc /\ frame.pc < frame.code_object.code[i].opn[1] }
\* the catch_start of the innermost try body the frame's pc is in
EnclosingCatchStart(frame) ==
  frame.code_object.code[CHOOSE i \in EnclosingTries(frame) :
                           \A j \in EnclosingTries(frame) : j <= i].opn[1]
\* the frame has more try-blocks than try bodies around its pc: a try
\* statement inside the body it is in has caught an error and its handler has
\* finished
InnerTryHasCaught(frame) ==
  /\ EnclosingTries(frame) # {}
  /\ Len(frame.try_blocks) > Cardinality(EnclosingTries(frame))
  /\ frame.pc > Last(frame.try_blocks)

\* C26: a THROW of an error in the body of an outer try, executed after an
\* inner try statement of the same frame has caught an error and finished its
\* handler, is delivered to the outer try's handler: the frame stays, its pc
\* becomes the outer catch_start, and running stays true.
C26_OuterTryCatchesAfterInner ==
  [][ (ThrowsError /\ THROW /\ InnerTryHasCaught(Last(call_stack)))
        => /\ running'
           /\ Len(call_stack') = Len(call_stack)
           /\ Last(call_stack').pc = EnclosingCatchStart(Last(call_stack)) ]_vars

\* ---- C27
\* C27: while the loop of an exec_IMPORT is the innermost loop, every
\* instruction it executes belongs to a frame above the pre-import depth (the
\* module's frame or a frame pushed above it), and when the loop is left with
\* the VM still running the call stack is back at the pre-import depth.
C27_ImportLoopRunsOnlyModule ==
  [][ Last(loops).kind = "import" =>
        /\ ExecutesInstruction => Len(call_stack) > Last(loops).old
        /\ (Len(loops') < Len(loops) /\ status' = "run" /\ running')
             => Len(call_stack') = Last(loops).old ]_vars

\* ---- C28
\* the frame whose instruction the innermost loop executes
ExecutingFrame == IF Last(loops).kind = "repl" THEN ExtendFrame[1] ELSE Last(call_stack)
\* that frame after the step, as a sequence of zero or one
SameFrameAfter == SelectSeq(call_stack', LAMBDA f : f.fid = ExecutingFrame.fid)
\* the condition JUMP_IF_FALSE is about to pop is falsy
FalsyOnTop == Last(op_stack) = Nil \/ Last(op_stack) = BoolV(FALSE)

\* C28: pc discipline of every dispatch loop (main loop, call loop, import
\* loop, REPL execution). A loop iteration that executes an instruction without
\* raising an error and without entering or leaving a nested loop leaves the pc of the executing frame at the target for
\* JUMP, at the target or at pc + 1 for JUMP_IF_FALSE (falsy or truthy Bool or
\* Nil condition), and at pc + 1 for every opcode other than JUMP,
\* JUMP_IF_FALSE, RET and THROW.
C28_DispatcherPcDiscipline ==
  [][ ((ExecutesInstruction \/ ExtendStep) /\ status' = "run" /\ curr_error' = curr_error
         /\ Len(loops') = Len(loops) /\ SameFrameAfter # <<>>)
        => CASE curr_inst'.opc = "JUMP" -> SameFrameAfter[1].pc = curr_inst'.opn[1]
             [] curr_inst'.opc = "JUMP_IF_FALSE" /\ Last(op_stack).t \in {"bool", "nil"} ->
                  SameFrameAfter[1].pc = IF FalsyOnTop THEN curr_inst'.opn[1]
                                         ELSE ExecutingFrame.pc + 1
             [] curr_inst'.opc \in {"JUMP_IF_FALSE", "RET", "THROW"} -> TRUE
             [] OTHER -> SameFrameAfter[1].pc = ExecutingFrame.pc + 1 ]_vars

\* ---- C29
\* the depths below the current frame whose locals bind the name that the
\* fetched SET_NONLOCAL or SET_GLOBAL names
AssignedName == NameAt(Machine, Fetched.opn[1])
BindingFramesBelow ==
  {k \in 1..(Len(call_stack) - 1) : AssignedName \in DOMAIN call_stack[k].locals}
NearestBindingFrame == CHOOSE k \in BindingFramesBelow : \A j \in BindingFramesBelow : j <= k
\* every frame but the one at depth k keeps its locals, and that one gets the
\* popped value under the assigned name
WritesOnlyInto(k) ==
  /\ Len(call_stack') = Len(call_stack)
  /\ \A j \in 1..Len(call_stack) :
       call_stack'[j].locals = IF j = k THEN MapInsert(call_stack[j].locals, AssignedName, Last(op_stack))
                               ELSE call_stack[j].locals
\* the frames that are left keep their locals
WritesNothing ==
  /\ Len(call_stack') <= Len(call_stack)
  /\ \A j \in 1..Len(call_stack') : call_stack'[j].locals = call_stack[j].locals

\* C29: SET_NONLOCAL, executed in a frame that is not the bottom one with a
\* value on the operand stack, writes the popped value into the locals of the
\* nearest frame below the current one whose locals already bind the name,
\* whatever the size of that frame's names table, and leaves the locals of
\* every other frame alone; when no frame below binds the name it raises
\* NameError and writes nothing.
C29_SetNonlocalWritesNearestBinding ==
  [][ (Fetch("SET_NONLOCAL") /\ SET_NONLOCAL /\ Len(call_stack) >= 2 /\ op_stack # <<>>)
        => IF BindingFramesBelow # {}
           THEN /\ status' = "run"
                /\ curr_error' = curr_error
                /\ WritesOnlyInto(NearestBindingFrame)
           ELSE /\ curr_error' # curr_error
                /\ heap'[curr_error'.v].attrs["__name__"] = StrV("NameError")
                /\ WritesNothing ]_vars

\* ---- C30
\* C30: SET_GLOBAL, executed in any frame with a value on the operand stack and
\* a name index valid in the current frame's code object, binds that name to
\* the popped value in the locals of the bottom (main-module) frame and leaves
\* the locals of every other frame alone.
C30_SetGlobalWritesBottomFrame ==
  [][ (Fetch("SET_GLOBAL") /\ SET_GLOBAL /\ op_stack # <<>>
         /\ Fetched.opn[1] < Len(Last(call_stack).code_object.names))
        => /\ status' = "run"
           /\ op_stack' = SubSeq(op_stack, 1, Len(op_stack) - 1)
           /\ WritesOnlyInto(1) ]_vars

\* ---- C31
\* C31: a prototype singleton that is as VM startup left it has __parent__ =
\* based_obj unless it is based_obj itself, which has no __parent__; and while
\* based_obj is as startup left it, every attribute it defines is found by
\* get_attr from every such prototype (hence from the instances of every
\* variant, whose __parent__ is their prototype).
C31_PrototypesDeriveFromObject ==
  \A p \in based_obj..based_module :
    heap[p] = InitHeap[p] =>
      /\ p = based_obj => "__parent__" \notin DOMAIN heap[p].attrs
      /\ p # based_obj => /\ "__parent__" \in DOMAIN heap[p].attrs
                          /\ heap[p].attrs["__parent__"] = Ref(based_obj)
      /\ heap[based_obj] = InitHeap[based_obj] =>
           \A a \in DOMAIN heap[based_obj].attrs : get_attr(heap, Ref(p), a) # UndefinedAttribute

\* ---- C32
\* the frame that call_function pushed is still on the call stack after the step
CalleeFrameStays ==
  /\ Len(call_stack) > Last(loops).old
  /\ Len(call_stack') > Last(loops).old
  /\ call_stack'[Last(loops).old + 1].fid = call_stack[Last(loops).old + 1].fid

\* C32: while the loop of a call_function is the innermost loop, every
\* instruction it executes belongs to a frame above the call-stack depth at
\* entry; and when call_function returns with the VM running and no error has
\* escaped the callee (no error was raised, or the callee's own frame handles
\* it and stays), the call stack is back at the depth at entry and the operand
\* stack held the callee's result, also when the callee called further user
\* functions.
C32_NestedCallReturnsAtEntryDepth ==
  [][ Last(loops).kind = "call" =>
        /\ ExecutesInstruction => Len(call_stack) > Last(loops).old
        /\ (Len(loops') < Len(loops) /\ running' /\ (curr_error' = curr_error \/ CalleeFrameStays))
             => /\ Len(call_stack') = Last(loops).old
                /\ op_stack # <<>> ]_vars

\* ---- C33
\* the <<name, message>> pairs of the errors that the native __call__ of the
\* object called raises for the listed arguments
CallAttrErrors ==
  IF CallAttr.t # "native" THEN {}
  ELSE { <<StrV(r[1].en), StrV(r[1].em)>> :
           r \in { x \in native_call(Pop(Pop(Machine)), CallAttr.s, CallSite.func,
                                     op_stack[Len(op_stack) - 1]) : x[1].ev = "error" } }

\* C33: when the call of an object raises an error although a __call__ is
\* reachable on the object, the error raised is the one the __call__
\* implementation raised, with its name and message; the TypeError
\* "try to call an uncallable object" is raised only when no __call__ is
\* reachable.
C33_CallErrorKeepsItsName ==
  [][ (CallsObject /\ (CALL \/ CALL_METHOD) /\ curr_error' # curr_error
         /\ CallAttr # UndefinedAttribute)
        => <<heap'[curr_error'.v].attrs["__name__"], heap'[curr_error'.v].attrs["__msg__"]>>
             \in CallAttrErrors ]_vars

\* ---- C34
\* the attribute each binary opcode resolves on its left operand
BinaryMagic ==
  ("OP_ADD" :> "__add__") @@ ("OP_SUB" :> "__sub__") @@ ("OP_MUL" :> "__mul__") @@
  ("OP_DIV" :> "__div__") @@ ("OP_MOD" :> "__mod__") @@ ("OP_POW" :> "__pow__") @@
  ("OP_EQ" :> "__eq__") @@ ("OP_GT" :> "__gt__") @@ ("OP_LT" :> "__lt__")
\* a loop executes a binary opcode
ExecutesBinary ==
  OP_ADD \/ OP_SUB \/ OP_MUL \/ OP_DIV \/ OP_MOD \/ OP_POW \/ OP_EQ \/ OP_GT \/ OP_LT
\* the operands of the binary opcode at the loop head, and the method
LeftOperand == op_stack[Len(op_stack) - 1]
RightOperand == Last(op_stack)
BinaryMethod == get_attr(heap, LeftOperand, BinaryMagic[Fetched.opc])
\* what the native method returns for self = left and the argument list [right]
NativeResults ==
  { r[2] : r \in { x \in native_call(Alloc(Pop(Pop(Machine)), NewList(<<RightOperand>>)),
                                      BinaryMethod.s, LeftOperand,
                                      Ref(Len(heap) + 1)) : x[1].ev = "ok" } }

\* C34: a binary opcode whose method left.__x__ is native and returns replaces
\* the two operands by the one result of calling that method with self = left
\* and the argument list [right]: the operand stack is one shorter, what was
\* below the operands is untouched, and the call stack is unchanged but for
\* the pc of the executing frame, which moves to the next instruction.
C34_BinaryOpCallsLeftMethod ==
  [][ (ExecutesBinary /\ Len(op_stack) >= 2 /\ BinaryMethod.t = "native"
         /\ status' = "run" /\ curr_error' = curr_error)
        => /\ Len(op_stack') = Len(op_stack) - 1
           /\ SubSeq(op_stack', 1, Len(op_stack') - 1) = SubSeq(op_stack, 1, Len(op_stack) - 2)
           /\ Last(op_stack') \in NativeResults
           /\ call_stack' = [call_stack EXCEPT ![Len(call_stack)].pc = @ + 1] ]_vars

\* C34 witness: 7 - 2 has left 5 on the operand stack
C34_SevenMinusTwo ==
  /\ program = "arith" /\ curr_inst.opc = "OP_SUB" /\ status = "run"
  /\ op_stack = <<IntV(5)>> /\ Len(call_stack) = 1

\* ---- C35
\* truthiness as the specification defines it: the value of a Bool, false for
\* Nil, and for another object the truthiness of what its native __bool__
\* returns for self = the object and no arguments
RECURSIVE Truths(_, _, _)
Truths(m, obj, fuel) ==
  IF obj.t = "bool" THEN {obj.b}
  ELSE IF obj.t = "nil" THEN {FALSE}
  ELSE LET method == get_attr(m.hp, obj, "__bool__")
       IN IF method.t # "native" \/ fuel = 0 THEN {}
          ELSE UNION { Truths(r[1], r[2], fuel - 1) :
                       r \in { x \in native_call(Alloc(m, NewList(<<>>)), method.s, obj, NewRef(m)) :
                                 x[1].ev = "ok" } }
\* a step that ran to its end without raising an error
Completes == status' = "run" /\ curr_error' = curr_error
\* the operand stack without the two operands, with v in their place
Replaced(v) == Append(SubSeq(op_stack, 1, Len(op_stack) - 2), v)

\* C35: OP_AND leaves the left operand itself when it is falsy and the right
\* operand itself otherwise; OP_OR leaves the left operand itself when it is
\* truthy and the right operand itself otherwise; OP_NOT leaves the Bool that
\* negates the truthiness of its operand. Nothing is coerced by AND and OR.
C35_LogicOpsYieldOperands ==
  [][ /\ (OP_AND /\ Completes) =>
           \E t \in Truths(Pop(Pop(Machine)), LeftOperand, MaxDepth) :
             op_stack' = Replaced(IF ~t THEN LeftOperand ELSE RightOperand)
      /\ (OP_OR /\ Completes) =>
           \E t \in Truths(Pop(Pop(Machine)), LeftOperand, MaxDepth) :
             op_stack' = Replaced(IF t THEN LeftOperand ELSE RightOperand)
      /\ (OP_NOT /\ Completes) =>
           \E t \in Truths(Pop(Machine), Last(op_stack), MaxDepth) :
             op_stack' = Append(Front(op_stack), BoolV(~t)) ]_vars

\* C35 witness: [] or [2] has left the right operand, the list [2], and
\* 3 and 4 had left 4
C35_OrYieldsRightList ==
  /\ program = "logic_or" /\ curr_inst.opc = "OP_OR" /\ status = "run"
  /\ Len(op_stack) = 1 /\ IsList(Machine, op_stack[1]) /\ heap[op_stack[1].v].val = <<IntV(2)>>
  /\ call_stack[1].locals["a"] = IntV(5) /\ call_stack[1].locals["b"] = IntV(3)

\* ---- C36
\* C36: is_true as the conditional jump, OP_NOT and the return of a __bool__
\* Function observe it. JUMP_IF_FALSE on a Bool, on Nil or on an object with a
\* native __bool__ falls through or jumps by the truthiness of the operand
\* (the Bool's value, false for Nil, else the truthiness of what __bool__
\* returns); a __bool__ that is a user Function is called with self bound to
\* the object and no other argument, and when it returns the jump is decided
\* by the truthiness of the value it returned.
C36_IsTrueFollowsBoolChain ==
  [][ /\ (JUMP_IF_FALSE /\ Completes /\ Len(loops') = Len(loops)) =>
           \E t \in Truths(Pop(Machine), Last(op_stack), MaxDepth) :
             Last(call_stack').pc = IF t THEN Last(call_stack).pc + 1 ELSE Fetched.opn[1]
      /\ (call_function /\ Completes) =>
           /\ Len(call_stack') = Len(call_stack) + 1
           /\ Last(call_stack').owner = get_attr(heap, Last(op_stack), "__bool__")
           /\ Last(call_stack').locals = (Last(call_stack').code_object.names[1] :> Last(op_stack))
      /\ (CallLoopRet /\ Completes /\ op_stack # <<>>) =>
           \E t \in Truths(Pop(Machine), Last(op_stack), MaxDepth) :
             Last(call_stack').pc = IF t THEN call_stack[Last(loops).old].pc + 1
                                    ELSE Last(loops).inst.opn[1] ]_vars

\* C36 witness: T's __bool__ returned the Int 0, whose own __bool__ gives
\* false, and the conditional jump was taken
C36_ChainThroughInt ==
  /\ program = "bool_chain" /\ curr_inst.opc = "RET" /\ status = "run"
  /\ Len(call_stack) = 1 /\ Len(loops) = 1 /\ op_stack = <<>>
  /\ Last(call_stack).code_object.code[Last(call_stack).pc].opc = "JUMP"

\* ---- C37
\* the number of container slots that hold object o: operand stack entries,
\* bindings in locals, constants of the code object
Holds(o) ==
  Cardinality({i \in 1..Len(op_stack) : op_stack[i] = Ref(o)})
  + Cardinality({n \in DOMAIN call_stack[1].locals : call_stack[1].locals[n] = Ref(o)})
  + Cardinality({i \in 1..Len(call_stack[1].code_object.consts) :
                   call_stack[1].code_object.consts[i] = Ref(o)})

\* C37: refcount discipline. An object's refc is 1 from its construction plus
\* 1 for every container slot that holds it: each store into the operand
\* stack, the locals or the constants has added 1 and each removal (a pop, an
\* overwritten binding) has taken 1 away.
C37_RefcountMatchesHolders ==
  \A o \in 1..Len(heap) : heap[o].refc = 1 + Holds(o)

\* C38: the VM never modifies the constants or the names of a code object
\* after IR generation: a frame that stays on the call stack keeps the
\* constants and the names its code object was created with, REPL inputs
\* executed on the persistent module frame included.
C38_ConstantsNeverMutated ==
  [][ \A k \in 1..Len(call_stack) :
        (k <= Len(call_stack') /\ call_stack'[k].fid = call_stack[k].fid)
          => /\ call_stack'[k].code_object.consts = call_stack[k].code_object.consts
             /\ call_stack'[k].code_object.names = call_stack[k].code_object.names ]_vars

\* ---- C39
\* the opcodes whose first operand is an instruction index
TargetOpcodes == {"JUMP", "JUMP_IF_FALSE", "TRY_START", "TRY_END"}
\* the code generated for the input that was read last, and the number of
\* instructions the persistent frame held before it was appended
InputCode == gen(Sessions[program][inputs_read]).code
InputStart == Len(ExtendFrame[1].code_object.code) - Len(InputCode)

\* C39: a later REPL input appended to the persistent frame's code has every
\* JUMP, JUMP_IF_FALSE, TRY_START and TRY_END target offset by the number of
\* instructions appended before it, and while it executes, every instruction
\* fetched from the persistent frame is one of the same input.
C39_AppendedTargetsStayInInput ==
  [][ /\ (eval_and_print /\ call_stack # <<>>) =>
           LET old == Len(Last(call_stack).code_object.code)
               ir == gen(Sessions[program][inputs_read + 1]).code
               appended == Last(call_stack').code_object.code
           IN \A j \in 1..Len(ir) :
                ir[j].opc \in TargetOpcodes =>
                  /\ appended[old + j].opn[1] = ir[j].opn[1] + old
                  /\ appended[old + j].opn[1] >= old
      /\ ExtendStep => ExtendFrame[1].pc >= InputStart ]_vars

\* ------------------------------------------------------------ dep::HashMap
\* The attrs, locals and builtins maps are dep::HashMap<Object*>. A key is a
\* std::string, here the sequence of its bytes; a map is its bucket array
\* (each bucket the chain of its nodes, head first) and elem_count_.

\* FNV-1a works on 64 bits; getBucketIndex reads the low bits only, and the low
\* bits of an xor and of a product depend on the low bits of the operands
\* alone, so the hash is kept modulo 2^12 (bucket arrays up to 4096)
HashWidth == 2^12
\* 14695981039346656037 modulo 2^12
FNV_OFFSET == 805
\* 1099511628211 modulo 2^12
FNV_PRIME == 435
\* the bucket count of a new map
init_size == 16

RECURSIVE BitXor(_, _)
BitXor(a, b) ==
  IF a = 0 THEN b
  ELSE IF b = 0 THEN a
  ELSE (((a % 2) + (b % 2)) % 2) + 2 * BitXor(a \div 2, b \div 2)

RECURSIVE fnv1a(_, _)
fnv1a(hash, key) ==
  IF key = <<>> THEN hash
  ELSE fnv1a((BitXor(hash, Head(key)) * FNV_PRIME) % HashWidth, Tail(key))
\* dep::hash_string
hash_string(key) == fnv1a(FNV_OFFSET, key)

\* HashMap::StringBucket
StringBucket(key, val) == [key |-> key, value |-> val, hash |-> hash_string(key)]
\* HashMap::HashMap()
NewHashMap == [buckets_ |-> [i \in 1..init_size |-> <<>>], elem_count_ |-> 0]
\* HashMap::getBucketIndex: hash & (buckets_.size() - 1), the size a power of two
getBucketIndex(m, hash) == hash % Len(m.buckets_)

\* the nodes in the order in which a walk over the bucket array meets them
RECURSIVE nodes_from(_, _)
nodes_from(buckets, i) ==
  IF i > Len(buckets) THEN <<>> ELSE buckets[i] \o nodes_from(buckets, i + 1)
\* HashMap::to_vector
to_vector(m) == nodes_from(m.buckets_, 1)

\* HashMap::resize: every node, bucket by bucket and chain by chain, is put at
\* the head of its chain in an array of twice the size
RECURSIVE rehash(_, _)
rehash(nodes, new_buckets) ==
  IF nodes = <<>> THEN new_buckets
  ELSE LET new_idx == Head(nodes).hash % Len(new_buckets)
       IN rehash(Tail(nodes), [new_buckets EXCEPT ![new_idx + 1] = <<Head(nodes)>> \o @])
resize(m) ==
  [m EXCEPT !.buckets_ = rehash(to_vector(m), [i \in 1..(2 * Len(m.buckets_)) |-> <<>>])]

\* the position in a chain of the first node with this hash and key, or 0
FirstMatch(chain, hash, key) ==
  LET hits == {i \in 1..Len(chain) : chain[i].hash = hash /\ chain[i].key = key}
  IN IF hits = {} THEN 0 ELSE CHOOSE i \in hits : \A j \in hits : i <= j

\* HashMap::find, HashMap::find_in_current: the node, as a sequence of zero or
\* one
find_in_current(m, key) ==
  IF m.buckets_ = <<>> THEN <<>>
  ELSE LET hash == hash_string(key)
           chain == m.buckets_[getBucketIndex(m, hash) + 1]
           at == FirstMatch(chain, hash, key)
       IN IF at = 0 THEN <<>> ELSE <<chain[at]>>

\* HashMap::insert: an existing key gets the value; a new key goes to the head
\* of its chain, after a resize when elem_count_ / buckets_.size() >= 0.7
\* (0.7 is no quotient of a count by a power of two: the comparison is exact
\* in integers)
insert(map, key, val) ==
  LET m == IF map.buckets_ = <<>>
           THEN [map EXCEPT !.buckets_ = [i \in 1..init_size |-> <<>>]] ELSE map
      hash == hash_string(key)
      bucket_idx == getBucketIndex(m, hash)
      at == FirstMatch(m.buckets_[bucket_idx + 1], hash, key)
      grown == IF 10 * m.elem_count_ >= 7 * Len(m.buckets_) THEN resize(m) ELSE m
  IN IF at # 0
     THEN [m EXCEPT !.buckets_[bucket_idx + 1][at].value = val]
     ELSE [buckets_ |-> [grown.buckets_ EXCEPT ![getBucketIndex(grown, hash) + 1] =
                             <<StringBucket(key, val)>> \o @],
           elem_count_ |-> m.elem_count_ + 1]

\* the keys inserted into one map, in the order of the program: the builtins
\* table and the attrs of four prototypes as Vm::entry_builtins fills them,
\* and variable names
AttrRuns ==
  [ builtins |-> <<
         \* print input ischild
         <<112, 114, 105, 110, 116>>, <<105, 110, 112, 117, 116>>, <<105, 115, 99, 104, 105, 108, 100>>,
         \* create now get_refc
         <<99, 114, 101, 97, 116, 101>>, <<110, 111, 119>>, <<103, 101, 116, 95, 114, 101, 102, 99>>,
         \* breakpoint cmd help
         <<98, 114, 101, 97, 107, 112, 111, 105, 110, 116>>, <<99, 109, 100>>, <<104, 101, 108, 112>>,
         \* delattr setattr getattr
         <<100, 101, 108, 97, 116, 116, 114>>, <<115, 101, 116, 97, 116, 116, 114>>, <<103, 101, 116, 97, 116, 116, 114>>,
         \* hasattr range type_of
         <<104, 97, 115, 97, 116, 116, 114>>, <<114, 97, 110, 103, 101>>, <<116, 121, 112, 101, 95, 111, 102>>,
         \* Object Int Bool
         <<79, 98, 106, 101, 99, 116>>, <<73, 110, 116>>, <<66, 111, 111, 108>>,
         \* __Rational Decimal List
         <<95, 95, 82, 97, 116, 105, 111, 110, 97, 108>>, <<68, 101, 99, 105, 109, 97, 108>>, <<76, 105, 115, 116>>,
         \* Dict Str Func
         <<68, 105, 99, 116>>, <<83, 116, 114>>, <<70, 117, 110, 99>>,
         \* NFunc __Nil Error
         <<78, 70, 117, 110, 99>>, <<95, 95, 78, 105, 108>>, <<69, 114, 114, 111, 114>>,
         \* Module
         <<77, 111, 100, 117, 108, 101>> >>,
    based_int |-> <<
         \* __parent__ __add__ __sub__
         <<95, 95, 112, 97, 114, 101, 110, 116, 95, 95>>, <<95, 95, 97, 100, 100, 95, 95>>, <<95, 95, 115, 117, 98, 95, 95>>,
         \* __mul__ __div__ __mod__
         <<95, 95, 109, 117, 108, 95, 95>>, <<95, 95, 100, 105, 118, 95, 95>>, <<95, 95, 109, 111, 100, 95, 95>>,
         \* __pow__ __neg__ __gt__
         <<95, 95, 112, 111, 119, 95, 95>>, <<95, 95, 110, 101, 103, 95, 95>>, <<95, 95, 103, 116, 95, 95>>,
         \* __lt__ __eq__ __call__
         <<95, 95, 108, 116, 95, 95>>, <<95, 95, 101, 113, 95, 95>>, <<95, 95, 99, 97, 108, 108, 95, 95>>,
         \* __bool__
         <<95, 95, 98, 111, 111, 108, 95, 95>> >>,
    based_list |-> <<
         \* __parent__ __add__ __mul__
         <<95, 95, 112, 97, 114, 101, 110, 116, 95, 95>>, <<95, 95, 97, 100, 100, 95, 95>>, <<95, 95, 109, 117, 108, 95, 95>>,
         \* __eq__ __call__ __bool__
         <<95, 95, 101, 113, 95, 95>>, <<95, 95, 99, 97, 108, 108, 95, 95>>, <<95, 95, 98, 111, 111, 108, 95, 95>>,
         \* __next__ append contains
         <<95, 95, 110, 101, 120, 116, 95, 95>>, <<97, 112, 112, 101, 110, 100>>, <<99, 111, 110, 116, 97, 105, 110, 115>>,
         \* foreach reverse extend
         <<102, 111, 114, 101, 97, 99, 104>>, <<114, 101, 118, 101, 114, 115, 101>>, <<101, 120, 116, 101, 110, 100>>,
         \* pop insert find
         <<112, 111, 112>>, <<105, 110, 115, 101, 114, 116>>, <<102, 105, 110, 100>>,
         \* map count filter
         <<109, 97, 112>>, <<99, 111, 117, 110, 116>>, <<102, 105, 108, 116, 101, 114>> >>,
    letters |-> <<
         \* a b c
         <<97>>, <<98>>, <<99>>,
         \* d e f
         <<100>>, <<101>>, <<102>>,
         \* g h i
         <<103>>, <<104>>, <<105>>,
         \* j k l
         <<106>>, <<107>>, <<108>>,
         \* m n a
         <<109>>, <<110>>, <<97>>,
         \* b
         <<98>> >>,
    reversed |-> <<
         \* n m l
         <<110>>, <<109>>, <<108>>,
         \* k j i
         <<107>>, <<106>>, <<105>>,
         \* h g f
         <<104>>, <<103>>, <<102>>,
         \* e d c
         <<101>>, <<100>>, <<99>>,
         \* b a
         <<98>>, <<97>> >>,
    based_str |-> <<
         \* __parent__ __add__ __mul__
         <<95, 95, 112, 97, 114, 101, 110, 116, 95, 95>>, <<95, 95, 97, 100, 100, 95, 95>>, <<95, 95, 109, 117, 108, 95, 95>>,
         \* __eq__ __call__ __bool__
         <<95, 95, 101, 113, 95, 95>>, <<95, 95, 99, 97, 108, 108, 95, 95>>, <<95, 95, 98, 111, 111, 108, 95, 95>>,
         \* contains
         <<99, 111, 110, 116, 97, 105, 110, 115>> >>,
    based_obj |-> <<
         \* __eq__ __str__ __getitem__
         <<95, 95, 101, 113, 95, 95>>, <<95, 95, 115, 116, 114, 95, 95>>, <<95, 95, 103, 101, 116, 105, 116, 101, 109, 95, 95>>,
         \* __setitem__ __eq__
         <<95, 95, 115, 101, 116, 105, 116, 101, 109, 95, 95>>, <<95, 95, 101, 113, 95, 95>> >>,
    rebound |-> <<
         \* x y x
         <<120>>, <<121>>, <<120>>,
         \* y x
         <<121>>, <<120>> >> ]

\* Object::Object: an object with an empty attrs map
AttrsInit ==
  /\ program \in DOMAIN AttrRuns
  /\ heap = << [kind |-> "object", attrs |-> NewHashMap] >>
  /\ call_stack = <<>>
  /\ op_stack = <<>>
  /\ running = TRUE
  /\ curr_error = None
  /\ loaded_modules = EmptyMap
  /\ loops = <<NoLoop>>
  /\ status = "run"
  /\ output = <<>>
  /\ frames_made = 0
  /\ curr_inst = NoInst
  /\ inputs_read = 0

\* the key of the next insert and its value, the number of the insert
NextKey == AttrRuns[program][inputs_read + 1]
NextValue == inputs_read + 1

\* attrs.insert(key, val)
attrs_insert ==
  /\ inputs_read < Len(AttrRuns[program])
  /\ heap' = [heap EXCEPT ![1].attrs = insert(@, NextKey, NextValue)]
  /\ inputs_read' = inputs_read + 1
  /\ UNCHANGED <<call_stack, op_stack, running, curr_error, loaded_modules, loops, status,
                 output, frames_made, curr_inst, program>>

AttrsSpec == AttrsInit /\ [][attrs_insert]_vars

\* ---- C40
\* the keys a walk over the map yields, in its order
KeysOf(m) == [i \in 1..Len(to_vector(m)) |-> to_vector(m)[i].key]
KeySet(m) == {KeysOf(m)[i] : i \in 1..Len(KeysOf(m))}

\* C40: after every insert into an attrs map, resizing ones included, find of
\* the inserted key gives the inserted value and find of every other key gives
\* what it gave before; each key appears once and elem_count_ is the number of
\* distinct keys; the walk of to_vector yields the keys in the order of their
\* first insertion (a new key comes last, an updated key keeps its place).
C40_AttrsUniqueInsertionOrdered ==
  [][ attrs_insert =>
        LET m == heap[1].attrs
            after == heap'[1].attrs
        IN /\ find_in_current(after, NextKey) # <<>> /\ find_in_current(after, NextKey)[1].value = NextValue
           /\ \A k \in KeySet(m) \ {NextKey} : find_in_current(after, k) = find_in_current(m, k)
           /\ Cardinality(KeySet(after)) = Len(KeysOf(after))
           /\ after.elem_count_ = Cardinality(KeySet(m) \cup {NextKey})
           /\ KeysOf(after) = IF NextKey \in KeySet(m) THEN KeysOf(m)
                              ELSE Append(KeysOf(m), NextKey) ]_vars

====
